---- MODULE Spec2Model ----
(***************************************************************************)
(* Model of the earthquake event comparison engine of QuakeFlow's          *)
(* mcp_phasenet_comparison server: EventMatcher.matchEvents                *)
(* (src/mcp_phasenet_comparison/src/services/event-matcher.js) and the     *)
(* match_events tool handler that calls it, the performance metrics and    *)
(* the full comparison workflow of PhaseNetComparisonService, and several  *)
(* requests served by the server's one EventMatcher.                       *)
(*                                                                         *)
(* Units: time in whole seconds, positions in km along one meridian (on a  *)
(* meridian the haversine distance is R*|dLat|, i.e. the difference of the *)
(* positions), depth in km, magnitude in whole magnitude units.  Scores    *)
(* are exact rationals in hundredths (weights 40, 40, 15, 5 for 0.4, 0.4,  *)
(* 0.15, 0.05); floating-point rounding is not modelled.                   *)
(***************************************************************************)
EXTENDS Integers, Sequences, FiniteSets, TLC

(***************************************************************************)
(* JavaScript values.  A value is a number, NaN, null, undefined, or (for  *)
(* a time string) an unparseable string.                                   *)
(***************************************************************************)
N(x) == [t |-> "num", v |-> x]
NaN == [t |-> "nan", v |-> 0]
Null == [t |-> "null", v |-> 0]
Undef == [t |-> "undef", v |-> 0]
BadTime == [t |-> "badstr", v |-> 0]
\* a key that the caller's object does not have at all
Absent == [t |-> "absent", v |-> 0]

IsNum(x) == x.t = "num"

Abs(i) == IF i < 0 THEN -i ELSE i

\* variant: the difference without Math.abs
AbsDiff_Signed(a, b) == IF IsNum(a) /\ IsNum(b) THEN N(a.v - b.v) ELSE NaN

\* Math.abs(a - b) on numbers; NaN as soon as one operand is not a number
\* (undefined - x and NaN - x are NaN)
AbsDiff(a, b) == IF IsNum(a) /\ IsNum(b) THEN N(Abs(a.v - b.v)) ELSE NaN

\* variant: exclusive thresholds (a >= b)
JsGreater_OrEqual(a, b) == IsNum(a) /\ IsNum(b) /\ a.v >= b.v

\* the JavaScript comparison a > b: false as soon as one side is NaN/undefined
JsGreater(a, b) == IsNum(a) /\ IsNum(b) /\ a.v > b.v

\* new Date(event.time).getTime(): milliseconds for a parseable time string,
\* NaN for an unparseable or missing one
DateGetTime(time) == IF IsNum(time) THEN N(time.v * 1000) ELSE NaN

\* Math.abs(refMs - detMs) / 1000
TimeDiffOf(refMs, detMs) ==
    IF IsNum(refMs) /\ IsNum(detMs) THEN N(Abs(refMs.v - detMs.v) \div 1000) ELSE NaN

\* x || 10.0 : every falsy x (undefined, null, NaN, 0) is replaced
DefaultDepth == 10
DepthOrDefault(depth_km) ==
    IF IsNum(depth_km) /\ depth_km.v # 0 THEN depth_km ELSE N(DefaultDepth)

(***************************************************************************)
(* calculateDistance: haversine(start, end, {unit: 'km'}).  The events of  *)
(* the model lie on one meridian (equal longitudes), where the great       *)
(* circle distance is the difference of the positions along the meridian   *)
(* (the longitude term below is 0 for them); any NaN coordinate makes the  *)
(* result NaN, as it does in the haversine formula.                        *)
(***************************************************************************)
calculateDistance(lat1, lon1, lat2, lon2) ==
    IF IsNum(lat1) /\ IsNum(lon1) /\ IsNum(lat2) /\ IsNum(lon2)
    THEN N(Abs(lat2.v - lat1.v) + Abs(lon2.v - lon1.v))
    ELSE NaN

(***************************************************************************)
(* Scores: exact rationals n/d (d > 0, lowest terms) in hundredths, or NaN *)
(* or +Infinity.                                                           *)
(***************************************************************************)
RECURSIVE GCD(_, _)
GCD(a, b) == IF b = 0 THEN a ELSE GCD(b, a % b)

Fin(n, d) ==
    LET g == GCD(Abs(n), d) IN [k |-> "fin", n |-> n \div g, d |-> d \div g]
ScoreNaN == [k |-> "nan", n |-> 0, d |-> 1]
Infinity == [k |-> "inf", n |-> 0, d |-> 1]
Zero == Fin(0, 1)

\* variant: the normalised difference without its weight
Term_Unweighted(diff, threshold, weight) ==
    IF IsNum(diff) /\ IsNum(threshold) /\ threshold.v > 0
    THEN Fin(diff.v, threshold.v)
    ELSE ScoreNaN

\* (diff / threshold) * weight
Term(diff, threshold, weight) ==
    IF ~IsNum(diff) \/ ~IsNum(threshold) THEN ScoreNaN
    ELSE IF threshold.v = 0
         THEN (IF diff.v = 0 THEN ScoreNaN ELSE Infinity)
         ELSE IF threshold.v > 0
              THEN Fin(weight * diff.v, threshold.v)
              ELSE Fin(-(weight * diff.v), -threshold.v)

\* a + b
Plus(a, b) ==
    IF a.k = "nan" \/ b.k = "nan" THEN ScoreNaN
    ELSE IF a.k = "inf" \/ b.k = "inf" THEN Infinity
    ELSE LET g == GCD(a.d, b.d)
         IN Fin(a.n * (b.d \div g) + b.n * (a.d \div g), (a.d \div g) * b.d)

\* the JavaScript comparison a < b on scores
ScoreLess(a, b) ==
    IF a.k = "nan" \/ b.k = "nan" THEN FALSE
    ELSE IF a.k = "inf" THEN FALSE
    ELSE IF b.k = "inf" THEN TRUE
    ELSE a.n * b.d < b.n * a.d

TimeWeight == 40
DistanceWeight == 40
MagnitudeWeight == 15
DepthWeight == 5

\* variant: every pair that passes the filters scores the same, so the first
\* one in list order is kept
calculateMatchScore_Constant(timeDiff, distance, magnitudeDiff, depthDiff, c) == Zero

calculateMatchScore(timeDiff, distance, magnitudeDiff, depthDiff, c) ==
    LET timeScore == Term(timeDiff, c.timeWindow, TimeWeight)
        distanceScore == Term(distance, c.distanceThreshold, DistanceWeight)
        magnitudeScore == IF magnitudeDiff # Null
                          THEN Term(magnitudeDiff, c.magnitudeDiffThreshold, MagnitudeWeight)
                          ELSE Zero
        depthScore == Term(depthDiff, c.depthDiffThreshold, DepthWeight)
    IN Plus(Plus(Plus(timeScore, distanceScore), magnitudeScore), depthScore)

(***************************************************************************)
(* Events and criteria.                                                    *)
(***************************************************************************)
Ev(time, latitude, longitude, depth_km, magnitude) ==
    [time |-> time, latitude |-> latitude, longitude |-> longitude,
     depth_km |-> depth_km, magnitude |-> magnitude]

\* { ...event, timeObj: new Date(event.time) }, timeObj held as its getTime()
WithDate(event) ==
    [time |-> event.time, latitude |-> event.latitude, longitude |-> event.longitude,
     depth_km |-> event.depth_km, magnitude |-> event.magnitude,
     timeObj |-> DateGetTime(event.time)]

Crit(tw, dt, mt, zt) ==
    [timeWindow |-> tw, distanceThreshold |-> dt,
     magnitudeDiffThreshold |-> mt, depthDiffThreshold |-> zt]

\* this.defaultCriteria
defaultCriteria == Crit(N(30), N(10), N(1), N(50))

\* one key of { ...this.defaultCriteria, ...criteria }: the caller's value when
\* the caller's object has the key (whatever its value), else the default
SpreadKey(default, given) == IF given = Absent THEN default ELSE given

\* { ...defaults, ...c }
SpreadOver(defaults, c) ==
    Crit(SpreadKey(defaults.timeWindow, c.timeWindow),
         SpreadKey(defaults.distanceThreshold, c.distanceThreshold),
         SpreadKey(defaults.magnitudeDiffThreshold, c.magnitudeDiffThreshold),
         SpreadKey(defaults.depthDiffThreshold, c.depthDiffThreshold))

Spread(c) == SpreadOver(defaultCriteria, c)

\* variant: matchEvents stores the merged criteria as the matcher's defaults
DefaultsAfter_Merged(defaults, c) == SpreadOver(defaults, c)

\* this.defaultCriteria after a call of matchEvents: line 24 builds a new
\* object and nothing assigns to this.defaultCriteria
DefaultsAfter(defaults, c) == defaults

\* args.x || fallback in handleMatchEvents: a missing, zero, null or NaN
\* argument is replaced, any other number is passed on
OrDefault(arg, fallback) == IF IsNum(arg) /\ arg.v # 0 THEN arg ELSE N(fallback)

ToolArgs(tw, dt, mt) ==
    [time_window |-> tw, distance_threshold |-> dt, magnitude_diff_threshold |-> mt]

\* the criteria object literal built by handleMatchEvents (no depth key)
HandlerCriteria(a) ==
    Crit(OrDefault(a.time_window, 30), OrDefault(a.distance_threshold, 10),
         OrDefault(a.magnitude_diff_threshold, 1), Absent)

(***************************************************************************)
(* The body of the inner loop of matchEvents for one pair (lines 56-94):   *)
(* the four hard filters in order, then the score.  outcome names the      *)
(* filter that rejected the pair, or "scored".                             *)
(***************************************************************************)
\* variant: only null counts as a missing magnitude (as in findMultipleMatches)
HasMagnitude_NullOnly(e) == e.magnitude # Null

HasMagnitude(e) == e.magnitude # Null /\ e.magnitude # Undef

Compare(refEvent, detEvent, c) ==
    LET timeDiff == TimeDiffOf(refEvent.timeObj, detEvent.timeObj)
        distance == calculateDistance(refEvent.latitude, refEvent.longitude,
                                      detEvent.latitude, detEvent.longitude)
        both == HasMagnitude(refEvent) /\ HasMagnitude(detEvent)
        magnitudeDiff == IF both THEN AbsDiff(refEvent.magnitude, detEvent.magnitude)
                         ELSE Null
        refDepth == DepthOrDefault(refEvent.depth_km)
        detDepth == DepthOrDefault(detEvent.depth_km)
        depthDiff == AbsDiff(refDepth, detDepth)
        outcome ==
            IF JsGreater(timeDiff, c.timeWindow) THEN "time"
            ELSE IF JsGreater(distance, c.distanceThreshold) THEN "distance"
            ELSE IF both /\ JsGreater(magnitudeDiff, c.magnitudeDiffThreshold)
                 THEN "magnitude"
            ELSE IF JsGreater(depthDiff, c.depthDiffThreshold) THEN "depth"
            ELSE "scored"
    IN [outcome |-> outcome, timeDiff |-> timeDiff, distance |-> distance,
        magnitudeDiff |-> magnitudeDiff, depthDiff |-> depthDiff,
        matchScore |-> calculateMatchScore(timeDiff, distance, magnitudeDiff,
                                           depthDiff, c)]

\* bestMatch = null
NoMatch == [referenceIndex |-> -1]

MatchOf(refIdx, detIdx, refEvent, detEvent, cmp) ==
    [referenceIndex |-> refIdx, detectedIndex |-> detIdx,
     referenceEvent |-> refEvent, detectedEvent |-> detEvent,
     timeDiff |-> cmp.timeDiff, distance |-> cmp.distance,
     magnitudeDiff |-> cmp.magnitudeDiff, depthDiff |-> cmp.depthDiff,
     matchScore |-> cmp.matchScore]

\* variant: score <= bestScore, the last of several equal scores wins
Better_OrEqual(score, bestScore) ==
    score.k # "nan" /\ bestScore.k # "nan"
    /\ (bestScore.k = "inf" \/ (score.k = "fin" /\ score.n * bestScore.d <= bestScore.n * score.d))

\* if (score < bestScore) { bestScore = score; bestMatch = {...} }
Better(score, bestScore) == ScoreLess(score, bestScore)

\* variant: the inner loop without the check for already claimed candidates
RECURSIVE ScanDetected_IgnoresClaims(_, _, _, _, _, _, _)
ScanDetected_IgnoresClaims(refIdx, refEvent, dets, claimed, c, detIdx, best) ==
    IF detIdx >= Len(dets) THEN best
    ELSE LET detEvent == dets[detIdx + 1]
             cmp == Compare(refEvent, detEvent, c)
             next == IF cmp.outcome = "scored"
                        /\ ScoreLess(cmp.matchScore, best.bestScore)
                     THEN [bestMatch |-> MatchOf(refIdx, detIdx, refEvent, detEvent, cmp),
                           bestScore |-> cmp.matchScore]
                     ELSE best
         IN ScanDetected_IgnoresClaims(refIdx, refEvent, dets, claimed, c,
                                       detIdx + 1, next)

(***************************************************************************)
(* The inner loop (lines 51-110) from detIdx on, with the bestMatch and    *)
(* bestScore found so far; indices are 0-based as in the source.           *)
(***************************************************************************)
RECURSIVE ScanDetected(_, _, _, _, _, _, _)
ScanDetected(refIdx, refEvent, dets, claimed, c, detIdx, best) ==
    IF detIdx >= Len(dets) THEN best
    ELSE IF detIdx \in claimed
         THEN ScanDetected(refIdx, refEvent, dets, claimed, c, detIdx + 1, best)
         ELSE LET detEvent == dets[detIdx + 1]
                  cmp == Compare(refEvent, detEvent, c)
                  next == IF cmp.outcome = "scored" /\ Better(cmp.matchScore, best.bestScore)
                          THEN [bestMatch |-> MatchOf(refIdx, detIdx, refEvent, detEvent, cmp),
                                bestScore |-> cmp.matchScore]
                          ELSE best
              IN ScanDetected(refIdx, refEvent, dets, claimed, c, detIdx + 1, next)

\* variant: the filter without the negation
RECURSIVE FilterUnmatched_KeepsMatched(_, _, _)
FilterUnmatched_KeepsMatched(events, indices, idx) ==
    IF idx >= Len(events) THEN <<>>
    ELSE (IF idx \in indices THEN <<events[idx + 1]>> ELSE <<>>)
         \o FilterUnmatched_KeepsMatched(events, indices, idx + 1)

\* array.filter((_, idx) => !indices.has(idx))
RECURSIVE FilterUnmatched(_, _, _)
FilterUnmatched(events, indices, idx) ==
    IF idx >= Len(events) THEN <<>>
    ELSE (IF idx \in indices THEN <<>> ELSE <<events[idx + 1]>>)
         \o FilterUnmatched(events, indices, idx + 1)

MapWithDate(events) == [i \in 1..Len(events) |-> WithDate(events[i])]

\* variant: timeObj assigned to the events of the caller's list
EventsAfter_InPlace(events) == MapWithDate(events)

\* the caller's list after matchEvents: map and the spread of lines 30-38
\* build a new list of new objects, and the filters of lines 120-121 new
\* lists; nothing assigns to the list or to one of its events
EventsAfter(events) == events

\* variant: the new match put in front of the earlier ones
Push_Front(array, item) == <<item>> \o array

\* matches.push(bestMatch)
Push(array, item) == Append(array, item)

\* variant: the set of claimed indices replaced by the new index
Add_Replace(set, value) == {value}

\* matchedRefIndices.add(refIdx), matchedDetIndices.add(bestMatch.detectedIndex)
Add(set, value) == set \cup {value}

(***************************************************************************)
(* matchEvents as a whole (lines 23-143): the function has no await, so a  *)
(* call runs from its first line to its return without suspension.         *)
(* MatchFrom is the outer loop from refIdx on.                             *)
(***************************************************************************)
RECURSIVE MatchFrom(_, _, _, _, _, _)
MatchFrom(refs, dets, c, refIdx, matches, matchedDetIndices) ==
    IF refIdx >= Len(refs) THEN matches
    ELSE LET best == ScanDetected(refIdx, refs[refIdx + 1], dets, matchedDetIndices,
                                  c, 0, [bestMatch |-> NoMatch, bestScore |-> Infinity])
         IN IF best.bestMatch # NoMatch
            THEN MatchFrom(refs, dets, c, refIdx + 1, Push(matches, best.bestMatch),
                           Add(matchedDetIndices, best.bestMatch.detectedIndex))
            ELSE MatchFrom(refs, dets, c, refIdx + 1, matches, matchedDetIndices)

\* the result of matchEvents(refs, dets, c) on a matcher whose
\* this.defaultCriteria is defaults
MatchAllWith(defaults, refs, dets, c) ==
    LET mc == SpreadOver(defaults, c)
        ms == MatchFrom(MapWithDate(refs), MapWithDate(dets), mc, 0, <<>>, {})
        unmatchedReference ==
            FilterUnmatched(refs, {ms[k].referenceIndex : k \in 1..Len(ms)}, 0)
        unmatchedDetected ==
            FilterUnmatched(dets, {ms[k].detectedIndex : k \in 1..Len(ms)}, 0)
    IN [matches |-> ms,
        unmatchedReference |-> unmatchedReference,
        unmatchedDetected |-> unmatchedDetected,
        matchingCriteria |-> mc,
        summary |-> [totalReference |-> Len(refs),
                     totalDetected |-> Len(dets),
                     matchedPairs |-> Len(ms),
                     unmatchedReference |-> Len(unmatchedReference),
                     unmatchedDetected |-> Len(unmatchedDetected)]]

MatchAll(refs, dets, c) == MatchAllWith(defaultCriteria, refs, dets, c)

(***************************************************************************)
(* PhaseNetComparisonService.calculatePerformanceMetrics and               *)
(* calculateStats (comparison service).  Ratios are exact rationals        *)
(* [k, n, d]; a division 0/0 is NaN and x || 0 turns NaN into 0.           *)
(***************************************************************************)
\* n / d for two counts
Divide(n, d) ==
    IF d = 0 THEN (IF n = 0 THEN ScoreNaN ELSE Infinity) ELSE Fin(n, d)

\* variant: the ratio without the fallback
OrZero_Keep(x) == x

\* x || 0
OrZero(x) == IF x.k = "nan" THEN Zero ELSE x

\* 2 * precision * recall / (precision + recall)
HarmonicMean(p, r) ==
    IF p.k = "fin" /\ r.k = "fin"
    THEN Divide(2 * p.n * r.n, p.n * r.d + r.n * p.d)
    ELSE ScoreNaN

RECURSIVE SumOf(_)
SumOf(values) == IF values = <<>> THEN 0 ELSE Head(values).v + SumOf(Tail(values))
RECURSIVE SumOfSquares(_)
SumOfSquares(values) ==
    IF values = <<>> THEN 0
    ELSE Head(values).v * Head(values).v + SumOfSquares(Tail(values))

\* calculateStats: null for no value; stdDev is the square root of variance
\* and rms the square root of meanSquare (the roots are not taken here)
calculateStats(values) ==
    IF Len(values) = 0 THEN Null
    ELSE LET n == Len(values)
             vs == {values[i].v : i \in 1..n}
         IN [mean |-> Fin(SumOf(values), n),
             variance |-> Fin(n * SumOfSquares(values) - SumOf(values) * SumOf(values),
                              n * n),
             meanSquare |-> Fin(SumOfSquares(values), n),
             min |-> CHOOSE x \in vs : \A y \in vs : x <= y,
             max |-> CHOOSE x \in vs : \A y \in vs : x >= y,
             count |-> n]

\* matches.map(m => m.timeDiff) and the like
TimeResiduals(ms) == [i \in 1..Len(ms) |-> ms[i].timeDiff]
DistanceResiduals(ms) == [i \in 1..Len(ms) |-> ms[i].distance]
\* variant: the magnitude residuals of all matches, unfiltered
MagnitudeResiduals_All(ms) == [i \in 1..Len(ms) |-> ms[i].magnitudeDiff]

\* matches.filter(m => m.magnitudeDiff !== null).map(m => m.magnitudeDiff)
RECURSIVE MagnitudeResiduals(_)
MagnitudeResiduals(ms) ==
    IF ms = <<>> THEN <<>>
    ELSE (IF Head(ms).magnitudeDiff # Null THEN <<Head(ms).magnitudeDiff>> ELSE <<>>)
         \o MagnitudeResiduals(Tail(ms))

\* if (matches.length > 0) residualStats = {...}
ResidualStats(ms) ==
    IF Len(ms) > 0
    THEN [time |-> calculateStats(TimeResiduals(ms)),
          distance |-> calculateStats(DistanceResiduals(ms)),
          magnitude |-> IF Len(MagnitudeResiduals(ms)) > 0
                        THEN calculateStats(MagnitudeResiduals(ms))
                        ELSE Null]
    ELSE Null

(***************************************************************************)
(* The helpers of the EventMatcher: calculateStats (its own, with the      *)
(* median and the quartiles), analyzeMatchingQuality and                   *)
(* generateMatchingSummary.  Values are rationals; stdDev is the square    *)
(* root of variance (the root is not taken here).                          *)
(***************************************************************************)
ToRatio(x) == Fin(x.v, 1)
Minus(a, b) == Fin(a.n * b.d - b.n * a.d, a.d * b.d)
Times(a, b) == Fin(a.n * b.n, a.d * b.d)
Over(a, n) == Fin(a.n, a.d * n)

RECURSIVE SumRatios(_)
SumRatios(values) ==
    IF values = <<>> THEN Zero ELSE Plus(Head(values), SumRatios(Tail(values)))

\* [...values].sort((a, b) => a - b)
RECURSIVE InsertSorted(_, _)
InsertSorted(x, sorted) ==
    IF sorted = <<>> THEN <<x>>
    ELSE IF ScoreLess(x, Head(sorted)) THEN <<x>> \o sorted
    ELSE <<Head(sorted)>> \o InsertSorted(x, Tail(sorted))
RECURSIVE SortAscending(_)
SortAscending(values) ==
    IF values = <<>> THEN <<>>
    ELSE InsertSorted(values[Len(values)],
                      SortAscending(SubSeq(values, 1, Len(values) - 1)))

EventMatcher_calculateStats(values) ==
    IF Len(values) = 0 THEN Null
    ELSE LET n == Len(values)
             sorted == SortAscending(values)
             mean == Over(SumRatios(values), n)
             squares == [i \in 1..n |-> Times(Minus(values[i], mean),
                                              Minus(values[i], mean))]
         IN [count |-> n,
             mean |-> mean,
             variance |-> Over(SumRatios(squares), n),
             min |-> sorted[1],
             max |-> sorted[n],
             median |-> IF n % 2 = 0
                        THEN Over(Plus(sorted[n \div 2], sorted[(n \div 2) + 1]), 2)
                        ELSE sorted[(n \div 2) + 1],
             p25 |-> sorted[(n \div 4) + 1],
             p75 |-> sorted[((3 * n) \div 4) + 1]]

Ratios(values) == [i \in 1..Len(values) |-> ToRatio(values[i])]

analyzeMatchingQuality(ms) ==
    IF Len(ms) = 0
    THEN [averageScore |-> Zero, timeStats |-> Null, distanceStats |-> Null,
          magnitudeStats |-> Null]
    ELSE LET scores == [i \in 1..Len(ms) |-> ms[i].matchScore]
         IN [averageScore |-> Over(SumRatios(scores), Len(scores)),
             scoreStats |-> EventMatcher_calculateStats(scores),
             timeStats |-> EventMatcher_calculateStats(Ratios(TimeResiduals(ms))),
             distanceStats |-> EventMatcher_calculateStats(Ratios(DistanceResiduals(ms))),
             magnitudeStats |->
                 IF Len(MagnitudeResiduals(ms)) > 0
                 THEN EventMatcher_calculateStats(Ratios(MagnitudeResiduals(ms)))
                 ELSE Null]

generateMatchingSummary(mr) ==
    [summary |-> mr.summary,
     matchingCriteria |-> mr.matchingCriteria,
     quality |-> analyzeMatchingQuality(mr.matches),
     performance |->
         [precision |-> Divide(mr.summary.matchedPairs,
                               mr.summary.matchedPairs + mr.summary.unmatchedDetected),
          recall |-> Divide(mr.summary.matchedPairs,
                            mr.summary.matchedPairs + mr.summary.unmatchedReference),
          matchingRate |-> Divide(mr.summary.matchedPairs, mr.summary.totalReference)]]

truePositives(mr) == Len(mr.matches)

\* variant: the false positives counted on the unmatched reference events
falsePositives_FromReference(mr) == Len(mr.unmatchedReference)

falsePositives(mr) == Len(mr.unmatchedDetected)
falseNegatives(mr) == Len(mr.unmatchedReference)

calculatePerformanceMetrics(mr) ==
    LET tp == truePositives(mr)
        fp == falsePositives(mr)
        fn == falseNegatives(mr)
        precision == OrZero(Divide(tp, tp + fp))
        recall == OrZero(Divide(tp, tp + fn))
        f1Score == OrZero(HarmonicMean(precision, recall))
        detectionRate == recall
        falseAlarmRate == OrZero(Divide(fp, tp + fp))
    IN [precision |-> precision,
        recall |-> recall,
        f1Score |-> f1Score,
        detectionRate |-> detectionRate,
        falseAlarmRate |-> falseAlarmRate,
        truePositives |-> tp,
        falsePositives |-> fp,
        falseNegatives |-> fn,
        totalReference |-> tp + fn,
        totalDetected |-> tp + fp,
        residualStats |-> ResidualStats(mr.matches)]

(***************************************************************************)
(* Inputs of a run.  Lists are drawn from small pools of events; each pool *)
(* varies the attributes one group of filters looks at, around BaseEvent.  *)
(***************************************************************************)
MaxRef == 2
MaxDet == 2

Lon0 == N(139)
BaseEvent == Ev(N(0), N(0), Lon0, N(10), N(4))
At(time, latitude) == Ev(time, latitude, Lon0, N(10), N(4))
WithMagnitude(m) == Ev(N(0), N(0), Lon0, N(10), m)
WithDepth(z) == Ev(N(0), N(0), Lon0, z, N(4))
Shifted(k) == Ev(N(k), N(k), Lon0, N(10 + k), N(4 + k))

\* time differences 3, 27, 30 (= timeWindow), 31, 1; one position 1 km away
PoolTime == {At(N(0), N(0)), At(N(3), N(0)), At(N(30), N(0)), At(N(31), N(0)),
             At(N(0), N(1))}
\* distances 1, 9, 10 (= distanceThreshold), 11; one time 3 s away
PoolDistance == {At(N(0), N(0)), At(N(0), N(1)), At(N(0), N(10)), At(N(0), N(11)),
                 At(N(3), N(0))}
\* magnitude missing (null, undefined) and differences 0, 1 (= threshold), 2
PoolMagnitude == {WithMagnitude(Null), WithMagnitude(Undef), WithMagnitude(N(3)),
                  WithMagnitude(N(4)), WithMagnitude(N(5))}
\* depth missing, 0, and differences 50 (= threshold), 51, 60, 61
PoolDepth == {WithDepth(Undef), WithDepth(N(0)), WithDepth(N(10)), WithDepth(N(60)),
              WithDepth(N(61))}
\* an unparseable time, a NaN latitude, a NaN longitude
PoolNonFinite == {BaseEvent, At(N(30), N(0)), At(BadTime, N(0)), At(N(0), NaN),
                  Ev(N(0), N(0), NaN, N(10), N(4))}
\* every attribute 0, 1 or 2 away, for thresholds of 1, 0 and -1
PoolCriteria == {Shifted(0), Shifted(1), Shifted(2)}

NoCriteria == Crit(Absent, Absent, Absent, Absent)
NoArgs == ToolArgs(Absent, Absent, Absent)

ThresholdValues == {N(1), N(0), N(-1)}
\* criteria objects with one key set
OneKeyCriteria ==
    {Crit(x, Absent, Absent, Absent) : x \in ThresholdValues}
    \cup {Crit(Absent, x, Absent, Absent) : x \in ThresholdValues}
    \cup {Crit(Absent, Absent, x, Absent) : x \in ThresholdValues}
    \cup {Crit(Absent, Absent, Absent, x) : x \in ThresholdValues}
\* criteria objects with one key present and set to undefined
UndefinedKeyCriteria ==
    {Crit(Undef, Absent, Absent, Absent), Crit(Absent, Undef, Absent, Absent),
     Crit(Absent, Absent, Undef, Absent), Crit(Absent, Absent, Absent, Undef)}
OneKeyArgs ==
    {ToolArgs(x, Absent, Absent) : x \in ThresholdValues}
    \cup {ToolArgs(Absent, x, Absent) : x \in ThresholdValues}
    \cup {ToolArgs(Absent, Absent, x) : x \in ThresholdValues}

\* the sample run of the comparison script (3 reference, 5 detected events),
\* times in seconds after 2024-01-01T12:00:00Z, positions and magnitudes
\* rounded to whole km and whole units
SampleReference ==
    << Ev(N(0), N(52), Lon0, N(10), N(4)),
       Ev(N(12600), N(0), Lon0, N(15), N(4)),
       Ev(N(76500), N(55), Lon0, N(12), N(4)) >>
SampleDetected ==
    << Ev(N(25), N(52), Lon0, N(12), N(4)),
       Ev(N(12585), N(0), Lon0, N(14), N(4)),
       Ev(N(21600), N(32), Lon0, N(8), N(3)),
       Ev(N(76530), N(55), Lon0, N(15), N(4)),
       Ev(N(94920), N(-7), Lon0, N(10), N(4)) >>
SampleCriteria == Crit(N(30), N(10), N(1), Absent)

\* the mock results of the server test: two matches, no unmatched reference
\* event, one unmatched detected event (the third of the test's detected
\* events); distances and magnitude differences rounded to whole units
MockMatch(referenceIndex, detectedIndex, timeDiff, distance, magnitudeDiff) ==
    [referenceIndex |-> referenceIndex, detectedIndex |-> detectedIndex,
     timeDiff |-> timeDiff, distance |-> distance, magnitudeDiff |-> magnitudeDiff]
MockMatchingResults ==
    [matches |-> << MockMatch(0, 0, N(25), N(1), N(0)),
                    MockMatch(1, 1, N(15), N(1), N(0)) >>,
     unmatchedReference |-> <<>>,
     unmatchedDetected |-> << Ev(N(21600), N(36), Lon0, N(8), N(3)) >>]

SeqsUpTo(S, n) == UNION {[1..k -> S] : k \in 0..n}

Pools == {PoolTime, PoolDistance, PoolMagnitude, PoolDepth, PoolNonFinite}

(***************************************************************************)
(* State.                                                                  *)
(***************************************************************************)
VARIABLES
    via,                 \* "matchEvents" (direct call) or "handleMatchEvents" (tool)
    args,                \* the arguments of the match_events tool call
    referenceEvents,     \* the caller's reference list
    detectedEvents,      \* the caller's detected list
    criteria,            \* the criteria object passed to matchEvents
    pc,                  \* "call", "loop", "done"
    matchingCriteria,
    refEventsWithDates,
    detEventsWithDates,
    refIdx,
    matches,
    matchedRefIndices,
    matchedDetIndices,
    examined,            \* history: the inner loop's locals for each pair compared
    outcome,             \* "none", "returned", "error"
    results

VARIABLES
    matching_results,    \* the argument of the calculate_performance_metrics tool
    matchingResults,     \* the object given to calculatePerformanceMetrics
    metrics              \* the PerformanceMetrics computed from it

\* runFullComparison
VARIABLES
    matching_criteria,   \* args.matching_criteria of the run_full_comparison call
    catalog,             \* the events the catalog download delivers
    detections,          \* the events the detections file holds
    step,                \* the step the run is about to take
    log,                 \* history: the steps started, in order
    files,               \* the output files written
    failure,             \* history: the step that failed and its error
    thrown,              \* the error the run rejects with
    returned             \* the value the run resolves to

\* calculateMatchScore applied on its own
VARIABLES
    scoreArgs,
    score

\* two requests served by one EventMatcher
VARIABLES
    thisDefaultCriteria, \* this.defaultCriteria of the shared matcher
    calls                \* per request: its inputs, position and result

\* the helpers of the EventMatcher applied to a result of matchEvents
VARIABLES
    matchingSummary,     \* the value generateMatchingSummary returned
    qualityFilter        \* a call of filterMatchesByQuality and its result

\* the loaders and parsers that normalize events
VARIABLES
    loader,              \* the loader or parser applied
    rawEvents,           \* the records of the file or of the response
    normalized           \* what the loader returned, or that it threw

\* the CallTool request handler of the server
VARIABLES
    toolCalls            \* per request: the tool name, its position, the
                         \* handler's outcome and the response

matcherVars == <<via, args, referenceEvents, detectedEvents, criteria, pc,
                 matchingCriteria, refEventsWithDates, detEventsWithDates, refIdx,
                 matches, matchedRefIndices, matchedDetIndices, examined, outcome,
                 results>>

\* the variables the matcher never touches
metricsVars == <<matching_results, matchingResults, metrics>>
runVars == <<matching_criteria, catalog, detections, step, log, files, failure, thrown,
             returned>>
scoreVars == <<scoreArgs, score>>
sharedVars == <<thisDefaultCriteria, calls>>
summaryVars == <<matchingSummary, qualityFilter>>
normalizeVars == <<loader, rawEvents, normalized>>
toolVars == <<toolCalls>>
laterVars == <<summaryVars, normalizeVars, toolVars>>
outsideMatcher == <<metricsVars, runVars, scoreVars, sharedVars, laterVars>>

vars == <<matcherVars, outsideMatcher>>

NoMetrics == Null

NoResults ==
    [matches |-> <<>>, unmatchedReference |-> <<>>, unmatchedDetected |-> <<>>,
     matchingCriteria |-> NoCriteria,
     summary |-> [totalReference |-> 0, totalDetected |-> 0, matchedPairs |-> 0,
                  unmatchedReference |-> 0, unmatchedDetected |-> 0]]

\* no full comparison under way
IdleRun ==
    /\ matching_criteria = Undef
    /\ catalog = <<>>
    /\ detections = <<>>
    /\ step = "idle"
    /\ log = <<>>
    /\ files = {}
    /\ failure = Null
    /\ thrown = Null
    /\ returned = Null

IdleScore ==
    /\ scoreArgs = Null
    /\ score = Null

IdleShared ==
    /\ thisDefaultCriteria = defaultCriteria
    /\ calls = <<>>

IdleSummary ==
    /\ matchingSummary = Null
    /\ qualityFilter = Null

IdleNormalize ==
    /\ loader = "none"
    /\ rawEvents = <<>>
    /\ normalized = Null

IdleTool == toolCalls = <<>>

IdleLater == IdleSummary /\ IdleNormalize /\ IdleTool

\* the locals of a call before it starts
InitLocals ==
    /\ matchingCriteria = NoCriteria
    /\ refEventsWithDates = <<>>
    /\ detEventsWithDates = <<>>
    /\ refIdx = 0
    /\ matches = <<>>
    /\ matchedRefIndices = {}
    /\ matchedDetIndices = {}
    /\ examined = {}
    /\ outcome = "none"
    /\ results = NoResults
    /\ matchingResults = NoResults
    /\ metrics = NoMetrics

InitRest ==
    /\ IdleRun
    /\ IdleScore
    /\ IdleShared
    /\ IdleLater
    /\ pc = "call"
    /\ InitLocals

\* no matchEvents or metrics tool call of its own
IdleMatcher ==
    /\ args = NoArgs
    /\ matching_results = Null
    /\ referenceEvents = <<>>
    /\ detectedEvents = <<>>
    /\ criteria = NoCriteria
    /\ pc = "idle"
    /\ InitLocals

\* direct calls with the default criteria, lists from one pool
InitPools ==
    /\ via = "matchEvents"
    /\ matching_results = Null
    /\ args = NoArgs
    /\ criteria = NoCriteria
    /\ \E pool \in Pools :
          /\ referenceEvents \in SeqsUpTo(pool, MaxRef)
          /\ detectedEvents \in SeqsUpTo(pool, MaxDet)

\* direct calls and tool calls with one threshold set to 1, 0 or -1
InitCriteria ==
    /\ matching_results = Null
    /\ referenceEvents \in SeqsUpTo(PoolCriteria, MaxRef)
    /\ detectedEvents \in SeqsUpTo(PoolCriteria, MaxDet)
    /\ \/ via = "matchEvents" /\ args = NoArgs
          /\ criteria \in OneKeyCriteria \cup UndefinedKeyCriteria
       \/ via = "handleMatchEvents" /\ args \in OneKeyArgs \cup {NoArgs}
          /\ criteria = NoCriteria

InitSample ==
    /\ via = "matchEvents"
    /\ matching_results = Null
    /\ args = NoArgs
    /\ criteria = SampleCriteria
    /\ referenceEvents = SampleReference
    /\ detectedEvents = SampleDetected

\* the calculate_performance_metrics tool called with the mock results
InitMetricsTool ==
    /\ via = "handleCalculateMetrics"
    /\ matching_results = MockMatchingResults
    /\ args = NoArgs
    /\ criteria = NoCriteria
    /\ referenceEvents = <<>>
    /\ detectedEvents = <<>>

Init == (InitPools \/ InitCriteria \/ InitSample \/ InitMetricsTool) /\ InitRest

(***************************************************************************)
(* matchEvents, lines 23-42: merge the criteria, attach the parsed times,  *)
(* start with no match.                                                    *)
(***************************************************************************)
Enter(c) ==
    /\ matchingCriteria' = SpreadOver(thisDefaultCriteria, c)
    /\ thisDefaultCriteria' = DefaultsAfter(thisDefaultCriteria, c)
    /\ referenceEvents' = EventsAfter(referenceEvents)
    /\ detectedEvents' = EventsAfter(detectedEvents)
    /\ refEventsWithDates' = MapWithDate(referenceEvents)
    /\ detEventsWithDates' = MapWithDate(detectedEvents)
    /\ matches' = <<>>
    /\ matchedRefIndices' = {}
    /\ matchedDetIndices' = {}
    /\ refIdx' = 0
    /\ pc' = "loop"

matchEvents ==
    /\ pc = "call"
    /\ via = "matchEvents"
    /\ Enter(criteria)
    /\ UNCHANGED <<via, args, criteria, examined, outcome, results>>
    /\ UNCHANGED <<metricsVars, runVars, scoreVars, calls, laterVars>>

\* handleMatchEvents: build the criteria from the tool arguments, call matchEvents
handleMatchEvents ==
    /\ pc = "call"
    /\ via = "handleMatchEvents"
    /\ criteria' = HandlerCriteria(args)
    /\ Enter(HandlerCriteria(args))
    /\ UNCHANGED <<via, args, examined, outcome, results>>
    /\ UNCHANGED <<metricsVars, runVars, scoreVars, calls, laterVars>>

\* the local values of the inner loop for each pair it compares for refIdx
\* (every detected index not yet claimed): the differences, the score and the
\* filter that rejected the pair
ExaminedFor(i) ==
    {[referenceIndex |-> i, detectedIndex |-> j,
      cmp |-> Compare(refEventsWithDates[i + 1], detEventsWithDates[j + 1],
                      matchingCriteria)] :
        j \in {k \in 0..(Len(detEventsWithDates) - 1) : k \notin matchedDetIndices}}

(***************************************************************************)
(* One iteration of the outer loop (lines 45-117): scan the unclaimed      *)
(* detected events, commit the best match if there is one.                 *)
(***************************************************************************)
ProcessReference ==
    /\ pc = "loop"
    /\ refIdx < Len(refEventsWithDates)
    /\ LET best == ScanDetected(refIdx, refEventsWithDates[refIdx + 1],
                                detEventsWithDates, matchedDetIndices,
                                matchingCriteria, 0,
                                [bestMatch |-> NoMatch, bestScore |-> Infinity])
       IN IF best.bestMatch # NoMatch
          THEN /\ matches' = Push(matches, best.bestMatch)
               /\ matchedRefIndices' = Add(matchedRefIndices, refIdx)
               /\ matchedDetIndices' = Add(matchedDetIndices,
                                           best.bestMatch.detectedIndex)
          ELSE UNCHANGED <<matches, matchedRefIndices, matchedDetIndices>>
    /\ examined' = examined \cup ExaminedFor(refIdx)
    /\ refIdx' = refIdx + 1
    /\ UNCHANGED <<via, args, referenceEvents, detectedEvents, criteria, pc,
                   matchingCriteria, refEventsWithDates, detEventsWithDates, outcome,
                   results>>
    /\ UNCHANGED outsideMatcher

(***************************************************************************)
(* After the loop (lines 119-142): the unmatched events, the summary, the  *)
(* returned result.                                                        *)
(***************************************************************************)
Return ==
    /\ pc = "loop"
    /\ refIdx >= Len(refEventsWithDates)
    /\ LET unmatchedReference == FilterUnmatched(referenceEvents, matchedRefIndices, 0)
           unmatchedDetected == FilterUnmatched(detectedEvents, matchedDetIndices, 0)
       IN results' =
            [matches |-> matches,
             unmatchedReference |-> unmatchedReference,
             unmatchedDetected |-> unmatchedDetected,
             matchingCriteria |-> matchingCriteria,
             summary |-> [totalReference |-> Len(referenceEvents),
                          totalDetected |-> Len(detectedEvents),
                          matchedPairs |-> Len(matches),
                          unmatchedReference |-> Len(unmatchedReference),
                          unmatchedDetected |-> Len(unmatchedDetected)]]
    /\ outcome' = "returned"
    /\ pc' = "done"
    /\ UNCHANGED <<via, args, referenceEvents, detectedEvents, criteria,
                   matchingCriteria, refEventsWithDates, detEventsWithDates, refIdx,
                   matches, matchedRefIndices, matchedDetIndices, examined>>
    /\ UNCHANGED outsideMatcher

(***************************************************************************)
(* The callers of calculatePerformanceMetrics: the comparison script and   *)
(* the full comparison apply it to the result matchEvents returned; the    *)
(* calculate_performance_metrics tool applies it to the parsed argument.   *)
(***************************************************************************)
CalculateMetrics ==
    /\ pc = "done"
    /\ outcome = "returned"
    /\ matchingResults' = results
    /\ metrics' = calculatePerformanceMetrics(results)
    /\ pc' = "metrics"
    /\ UNCHANGED <<via, args, referenceEvents, detectedEvents, criteria,
                   matchingCriteria, refEventsWithDates, detEventsWithDates, refIdx,
                   matches, matchedRefIndices, matchedDetIndices, examined, outcome,
                   results, matching_results>>
    /\ UNCHANGED <<runVars, scoreVars, sharedVars, laterVars>>

\* JSON.parse of JSON.stringify of a number or null: NaN is written as null
JSONValue(x) == IF x.t = "nan" THEN Null ELSE x
JSONMatch(m) ==
    [referenceIndex |-> m.referenceIndex, detectedIndex |-> m.detectedIndex,
     timeDiff |-> JSONValue(m.timeDiff), distance |-> JSONValue(m.distance),
     magnitudeDiff |-> JSONValue(m.magnitudeDiff)]
\* JSON.parse(args.matching_results)
JSONParse(text) ==
    [matches |-> [i \in 1..Len(text.matches) |-> JSONMatch(text.matches[i])],
     unmatchedReference |-> text.unmatchedReference,
     unmatchedDetected |-> text.unmatchedDetected]

handleCalculateMetrics ==
    /\ pc = "call"
    /\ via = "handleCalculateMetrics"
    /\ matchingResults' = JSONParse(matching_results)
    /\ metrics' = calculatePerformanceMetrics(JSONParse(matching_results))
    /\ pc' = "metrics"
    /\ UNCHANGED <<via, args, referenceEvents, detectedEvents, criteria,
                   matchingCriteria, refEventsWithDates, detEventsWithDates, refIdx,
                   matches, matchedRefIndices, matchedDetIndices, examined, outcome,
                   results, matching_results>>
    /\ UNCHANGED <<runVars, scoreVars, sharedVars, laterVars>>

\* generateMatchingSummary applied to the result matchEvents returned
GenerateMatchingSummary ==
    /\ pc = "metrics"
    /\ via \in {"matchEvents", "handleMatchEvents"}
    /\ matchingSummary = Null
    /\ matchingSummary' = generateMatchingSummary(results)
    /\ UNCHANGED <<matcherVars, metricsVars, runVars, scoreVars, sharedVars,
                   qualityFilter, normalizeVars, toolVars>>

Next ==
    \/ matchEvents
    \/ handleMatchEvents
    \/ ProcessReference
    \/ Return
    \/ CalculateMetrics
    \/ handleCalculateMetrics
    \/ GenerateMatchingSummary

Spec == Init /\ [][Next]_vars

\* the result the loop builds step by step is the result of the whole call
MatchAllAgrees ==
    (pc = "done" /\ outcome = "returned")
        => results = MatchAll(referenceEvents, detectedEvents, criteria)

(***************************************************************************)
(* runFullComparison (comparison service, lines 278-367).  Every await is  *)
(* a step of its own; the collaborators (fs.mkdir, the catalog download,   *)
(* the detections loader, fs.writeFile, the report generator) either       *)
(* deliver or reject with an error.                                        *)
(***************************************************************************)
MaxCatalog == 2

\* events 3 s and 31 s apart at one place
PoolRun == {At(N(0), N(0)), At(N(3), N(0)), At(N(31), N(0))}

\* a matching_criteria object: the keys the tool schema declares
\* (time_window, ...) and the keys the matcher reads (timeWindow, ...)
CriteriaObject(tw, dt, mt, zt, time_window, distance_threshold, magnitude_diff) ==
    [timeWindow |-> tw, distanceThreshold |-> dt, magnitudeDiffThreshold |-> mt,
     depthDiffThreshold |-> zt, time_window |-> time_window,
     distance_threshold |-> distance_threshold,
     magnitude_diff_threshold |-> magnitude_diff]
EmptyObject == CriteriaObject(Absent, Absent, Absent, Absent, Absent, Absent, Absent)
SchemaCriteria(time_window, distance_threshold, magnitude_diff_threshold) ==
    CriteriaObject(Absent, Absent, Absent, Absent, time_window, distance_threshold,
                   magnitude_diff_threshold)
\* the object of the usage guide
UsageCriteria == SchemaCriteria(N(30), N(10), N(1))

RunCriteriaSet ==
    {Undef, UsageCriteria,
     SchemaCriteria(N(3), Absent, Absent),
     SchemaCriteria(N(60), N(10), N(1)),
     CriteriaObject(N(3), Absent, Absent, Absent, Absent, Absent, Absent)}

\* const { ..., matching_criteria = {} } = args
MatchingCriteriaOrEmpty(x) == IF x = Undef THEN EmptyObject ELSE x

\* the keys of the object that { ...this.defaultCriteria, ...criteria } copies
\* onto the keys the matcher reads
CriteriaKeys(obj) ==
    Crit(obj.timeWindow, obj.distanceThreshold, obj.magnitudeDiffThreshold,
         obj.depthDiffThreshold)

\* the messages of the errors the collaborators reject with
OriginMessages == {"EACCES: permission denied", "ENOSPC: no space left on device"}
ErrorOf(message) == [message |-> <<message>>]
\* new Error(`Full comparison workflow failed: ${error.message}`)
Wrapped(error) ==
    [message |-> <<"Full comparison workflow failed: ">> \o error.message]

\* variant: matching and metrics before the two acquisition steps
StepAfter_MatchFirst(s) ==
    CASE s = "mkdir" -> "match"
      [] s = "match" -> "metrics"
      [] s = "metrics" -> "download"
      [] s = "download" -> "load"
      [] s = "load" -> "writeMatches"
      [] s = "writeMatches" -> "writeMetrics"
      [] s = "writeMetrics" -> "report"
      [] s = "report" -> "return"

\* the statement that follows the await of step s
StepAfter(s) ==
    CASE s = "mkdir" -> "download"
      [] s = "download" -> "load"
      [] s = "load" -> "match"
      [] s = "match" -> "metrics"
      [] s = "metrics" -> "writeMatches"
      [] s = "writeMatches" -> "writeMetrics"
      [] s = "writeMetrics" -> "report"
      [] s = "report" -> "return"

matcherLocals == <<via, args, pc, matchingCriteria, refEventsWithDates,
                   detEventsWithDates, refIdx, matches, matchedRefIndices,
                   matchedDetIndices, examined, outcome>>
runFrame == <<matcherLocals, matching_results, matching_criteria, catalog, detections,
              scoreVars, sharedVars, laterVars>>

InitRun ==
    /\ via = "runFullComparison"
    /\ IdleMatcher
    /\ IdleScore
    /\ IdleShared
    /\ IdleLater
    /\ matching_criteria \in RunCriteriaSet
    /\ catalog \in SeqsUpTo(PoolRun, MaxCatalog)
    /\ detections \in SeqsUpTo(PoolRun, MaxCatalog)
    /\ step = "mkdir"
    /\ log = <<>>
    /\ files = {}
    /\ failure = Null
    /\ thrown = Null
    /\ returned = Null

\* step s is started and its await resolves
Resolves(s) ==
    /\ step = s
    /\ log' = Append(log, s)
    /\ step' = StepAfter(s)
    /\ UNCHANGED <<failure, thrown, returned>>
    /\ UNCHANGED runFrame

\* step s is started and its await rejects with error; the run rejects with
\* surfaced
Rejects(s, error, surfaced) ==
    /\ step = s
    /\ log' = Append(log, s)
    /\ failure' = [at |-> s, error |-> error]
    /\ thrown' = surfaced
    /\ step' = "failed"
    /\ UNCHANGED <<referenceEvents, detectedEvents, criteria, results, matchingResults,
                   metrics, files, returned>>
    /\ UNCHANGED runFrame

\* await fs.mkdir(output_dir, { recursive: true }), before the try
Run_mkdir ==
    /\ Resolves("mkdir")
    /\ UNCHANGED <<referenceEvents, detectedEvents, criteria, results, matchingResults,
                   metrics, files>>
Run_mkdirRejects ==
    \E m \in OriginMessages : Rejects("mkdir", ErrorOf(m), ErrorOf(m))

\* 1. referenceEvents = await catalogDownloader.downloadCatalog(...)
Run_downloadCatalog ==
    /\ Resolves("download")
    /\ referenceEvents' = catalog
    /\ UNCHANGED <<detectedEvents, criteria, results, matchingResults, metrics, files>>
Run_downloadCatalogRejects ==
    \E m \in OriginMessages : Rejects("download", ErrorOf(m), Wrapped(ErrorOf(m)))

\* 2. detectedEvents = await this.loadPhaseNetDetections(phasenet_file)
Run_loadPhaseNetDetections ==
    /\ Resolves("load")
    /\ detectedEvents' = detections
    /\ UNCHANGED <<referenceEvents, criteria, results, matchingResults, metrics, files>>
Run_loadPhaseNetDetectionsRejects ==
    \E m \in OriginMessages : Rejects("load", ErrorOf(m), Wrapped(ErrorOf(m)))

\* 3. matchingResults = await eventMatcher.matchEvents(referenceEvents,
\*    detectedEvents, matching_criteria)
Run_matchEvents ==
    /\ Resolves("match")
    /\ criteria' = CriteriaKeys(MatchingCriteriaOrEmpty(matching_criteria))
    /\ results' = MatchAll(referenceEvents, detectedEvents, criteria')
    /\ UNCHANGED <<referenceEvents, detectedEvents, matchingResults, metrics, files>>

\* 4. metrics = this.calculatePerformanceMetrics(matchingResults)
Run_calculatePerformanceMetrics ==
    /\ Resolves("metrics")
    /\ matchingResults' = results
    /\ metrics' = calculatePerformanceMetrics(results)
    /\ UNCHANGED <<referenceEvents, detectedEvents, criteria, results, files>>

\* 5. await fs.writeFile(matchesPath, ...)
Run_writeMatches ==
    /\ Resolves("writeMatches")
    /\ files' = files \cup {"event_matches.json"}
    /\ UNCHANGED <<referenceEvents, detectedEvents, criteria, results, matchingResults,
                   metrics>>
Run_writeMatchesRejects ==
    \E m \in OriginMessages : Rejects("writeMatches", ErrorOf(m), Wrapped(ErrorOf(m)))

\* await fs.writeFile(metricsPath, ...)
Run_writeMetrics ==
    /\ Resolves("writeMetrics")
    /\ files' = files \cup {"performance_metrics.json"}
    /\ UNCHANGED <<referenceEvents, detectedEvents, criteria, results, matchingResults,
                   metrics>>
Run_writeMetricsRejects ==
    \E m \in OriginMessages : Rejects("writeMetrics", ErrorOf(m), Wrapped(ErrorOf(m)))

\* 6. await reportGenerator.generateReport(..., reportPath, reference_source)
Run_generateReport ==
    /\ Resolves("report")
    /\ files' = files \cup {"comparison_report.html"}
    /\ UNCHANGED <<referenceEvents, detectedEvents, criteria, results, matchingResults,
                   metrics>>
Run_generateReportRejects ==
    \E m \in OriginMessages : Rejects("report", ErrorOf(m), Wrapped(ErrorOf(m)))

\* return { summary, matchingResults, metrics, matchesPath, metricsPath, reportPath }
Run_return ==
    /\ step = "return"
    /\ returned' =
         [summary |-> [totalReferenceEvents |-> Len(referenceEvents),
                       totalDetectedEvents |-> Len(detectedEvents),
                       matchedEvents |-> Len(results.matches),
                       f1Score |-> metrics.f1Score,
                       precision |-> metrics.precision,
                       recall |-> metrics.recall],
          matchingResults |-> results,
          metrics |-> metrics,
          matchesPath |-> "event_matches.json",
          metricsPath |-> "performance_metrics.json",
          reportPath |-> "comparison_report.html"]
    /\ step' = "returned"
    /\ UNCHANGED <<referenceEvents, detectedEvents, criteria, results, matchingResults,
                   metrics, files, log, failure, thrown>>
    /\ UNCHANGED runFrame

NextRun ==
    \/ Run_mkdir
    \/ Run_mkdirRejects
    \/ Run_downloadCatalog
    \/ Run_downloadCatalogRejects
    \/ Run_loadPhaseNetDetections
    \/ Run_loadPhaseNetDetectionsRejects
    \/ Run_matchEvents
    \/ Run_calculatePerformanceMetrics
    \/ Run_writeMatches
    \/ Run_writeMatchesRejects
    \/ Run_writeMetrics
    \/ Run_writeMetricsRejects
    \/ Run_generateReport
    \/ Run_generateReportRejects
    \/ Run_return

SpecRun == InitRun /\ [][NextRun]_vars

(***************************************************************************)
(* calculateMatchScore called on its own, with differences of 0..MaxDiff   *)
(* (the magnitude difference possibly null) and thresholds of              *)
(* 1..MaxThreshold.                                                        *)
(***************************************************************************)
MaxDiff == 2
MaxThreshold == 2

Differences == {N(x) : x \in 0..MaxDiff}
PositiveThresholds == {N(x) : x \in 1..MaxThreshold}

ScoreArgs(timeDiff, distance, magnitudeDiff, depthDiff, c) ==
    [timeDiff |-> timeDiff, distance |-> distance, magnitudeDiff |-> magnitudeDiff,
     depthDiff |-> depthDiff, criteria |-> c]

InitScore ==
    /\ via = "calculateMatchScore"
    /\ IdleMatcher
    /\ IdleRun
    /\ IdleShared
    /\ IdleLater
    /\ \E t, d, z \in Differences, m \in Differences \cup {Null},
          tw, dt, mt, zt \in PositiveThresholds :
          scoreArgs = ScoreArgs(t, d, m, z, Crit(tw, dt, mt, zt))
    /\ score = Null

ApplyScore ==
    /\ score = Null
    /\ scoreArgs # Null
    /\ score' = calculateMatchScore(scoreArgs.timeDiff, scoreArgs.distance,
                                    scoreArgs.magnitudeDiff, scoreArgs.depthDiff,
                                    scoreArgs.criteria)
    /\ UNCHANGED <<matcherVars, metricsVars, runVars, sharedVars, laterVars, scoreArgs>>

NextScore == ApplyScore

SpecScore == InitScore /\ [][NextScore]_vars

(***************************************************************************)
(* Several requests served by the server's one EventMatcher (server        *)
(* constructor).  A request is suspended while its event lists are loaded  *)
(* (the awaits of handleMatchEvents); matchEvents has no await and runs    *)
(* from its first line to its return in one piece; the metrics are         *)
(* computed from the returned result in a later turn.                      *)
(***************************************************************************)
MaxCalls == 2
Calls == 1..MaxCalls

SharedReference == {<<At(N(0), N(0))>>, <<At(N(3), N(0))>>}
SharedDetected == {<<At(N(31), N(0))>>, <<At(N(3), N(0)), At(N(31), N(0))>>}
SharedCriteria ==
    {NoCriteria, Crit(N(60), Absent, Absent, Absent), Crit(N(3), Absent, Absent, Absent)}

Call(refs, dets, c) ==
    [referenceEvents |-> refs, detectedEvents |-> dets, criteria |-> c,
     pc |-> "start", results |-> NoResults, metrics |-> NoMetrics]

InitShared ==
    /\ via = "server"
    /\ IdleMatcher
    /\ IdleRun
    /\ IdleScore
    /\ IdleLater
    /\ thisDefaultCriteria = defaultCriteria
    /\ calls \in [Calls -> {Call(refs, dets, c) : refs \in SharedReference,
                                                  dets \in SharedDetected,
                                                  c \in SharedCriteria}]

sharedFrame == <<matcherVars, metricsVars, runVars, scoreVars, laterVars>>

\* the awaits before matchEvents: the request's lists are loaded
Shared_load(r) ==
    /\ calls[r].pc = "start"
    /\ calls' = [calls EXCEPT ![r].pc = "loaded"]
    /\ UNCHANGED thisDefaultCriteria
    /\ UNCHANGED sharedFrame

Shared_matchEvents(r) ==
    /\ calls[r].pc = "loaded"
    /\ calls' = [calls EXCEPT
                   ![r].results = MatchAllWith(thisDefaultCriteria,
                                               calls[r].referenceEvents,
                                               calls[r].detectedEvents,
                                               calls[r].criteria),
                   ![r].pc = "matched"]
    /\ thisDefaultCriteria' = DefaultsAfter(thisDefaultCriteria, calls[r].criteria)
    /\ UNCHANGED sharedFrame

Shared_calculatePerformanceMetrics(r) ==
    /\ calls[r].pc = "matched"
    /\ calls' = [calls EXCEPT
                   ![r].metrics = calculatePerformanceMetrics(calls[r].results),
                   ![r].pc = "done"]
    /\ UNCHANGED thisDefaultCriteria
    /\ UNCHANGED sharedFrame

NextShared ==
    \/ \E r \in Calls : Shared_load(r)
    \/ \E r \in Calls : Shared_matchEvents(r)
    \/ \E r \in Calls : Shared_calculatePerformanceMetrics(r)

SpecShared == InitShared /\ [][NextShared]_vars

(***************************************************************************)
(* Normalization: the loaders of the comparison service (loadFromCSV with  *)
(* standardizeEvent, the picks format with groupPicksIntoEvents) and the   *)
(* parsers of the catalog downloader (parseGeoJsonEvents, parseXmlEvents   *)
(* with parseQuakeMLEvent).  A record of the input has a value or no value *)
(* for each attribute; a CSV cell is a text, a GeoJSON or parsed value a   *)
(* number.                                                                 *)
(***************************************************************************)
Text(x) == [t |-> "str", v |-> x]

\* the truthiness of a value: a non-empty text and a non-zero number
Truthy(x) == (x.t = "str") \/ (x.t = "num" /\ x.v # 0)

parseFloat(x) == IF x.t \in {"str", "num"} THEN N(x.v) ELSE NaN

Record(event_id, time, latitude, longitude, depth, magnitude) ==
    [event_id |-> event_id, time |-> time, latitude |-> latitude,
     longitude |-> longitude, depth |-> depth, magnitude |-> magnitude]

\* the cell of a CSV row for a value: its text; an empty cell has no value
Cell(x) == IF IsNum(x) THEN Text(x.v) ELSE Absent
Row(record) ==
    [event_id |-> Cell(record.event_id), time |-> Cell(record.time),
     latitude |-> Cell(record.latitude), longitude |-> Cell(record.longitude),
     depth |-> Cell(record.depth), magnitude |-> Cell(record.magnitude)]

Normal(event_id, time, latitude, longitude, depth_km, magnitude) ==
    [event_id |-> event_id, time |-> time, latitude |-> latitude,
     longitude |-> longitude, depth_km |-> depth_km, magnitude |-> magnitude]

\* the non-null elements, in order
RECURSIVE NonNull(_)
NonNull(events) ==
    IF events = <<>> THEN <<>>
    ELSE (IF Head(events) = Null THEN <<>> ELSE <<Head(events)>>) \o NonNull(Tail(events))

\* standardizeEvent(row): null for a row without time, latitude or longitude
standardizeEvent(row) ==
    IF ~Truthy(row.time) \/ ~Truthy(row.latitude) \/ ~Truthy(row.longitude)
    THEN Null
    ELSE Normal(IF row.event_id = Absent THEN Undef ELSE row.event_id,
                N(row.time.v),
                parseFloat(row.latitude),
                parseFloat(row.longitude),
                IF Truthy(row.depth) THEN parseFloat(row.depth) ELSE N(DefaultDepth),
                IF Truthy(row.magnitude) THEN parseFloat(row.magnitude) ELSE Null)

\* loadFromCSV: the standardized rows that are not null
loadFromCSV(records) ==
    NonNull([i \in 1..Len(records) |-> standardizeEvent(Row(records[i]))])

\* a || b
Or(a, b) == IF Truthy(a) THEN a ELSE b

\* the event of a group: the values of its first pick
GroupOf(pick) ==
    Normal(Or(pick.event_id, Undef),
           pick.time,
           Or(pick.latitude, Undef),
           Or(pick.longitude, Undef),
           Or(Or(pick.depth_km, Undef), N(DefaultDepth)),
           Or(pick.magnitude, Undef))

\* event => event.latitude && event.longitude && event.time
HasPosition(event) ==
    Truthy(event.latitude) /\ Truthy(event.longitude) /\ event.time \notin {Null, Undef}

\* events.filter(Keep)
FilterEvents(events, Keep(_)) == SelectSeq(events, Keep)

\* the groups in the order of their first pick
RECURSIVE Groups(_, _)
Groups(picks, seen) ==
    IF picks = <<>> THEN <<>>
    ELSE LET eventId == Or(Head(picks).event_id, Undef)
         IN IF eventId \in seen THEN Groups(Tail(picks), seen)
            ELSE <<GroupOf(Head(picks))>> \o Groups(Tail(picks), seen \cup {eventId})

groupPicksIntoEvents(picks) == FilterEvents(Groups(picks, {}), HasPosition)

\* loadPicksFormat
loadPicksFormat(records) == groupPicksIntoEvents(loadFromCSV(records))

\* new Date(props.time).toISOString() throws for an invalid date
ThrowsOnTime(record) == ~IsNum(record.time) /\ record.time # Null

\* the event parseGeoJsonEvents maps a feature to
FeatureEvent(record) ==
    Normal(record.event_id,
           IF record.time = Null THEN N(0) ELSE record.time,
           record.latitude, record.longitude, record.depth, record.magnitude)

\* event => event.latitude && event.longitude && event.time && event.magnitude
HasPositionAndMagnitude(event) ==
    Truthy(event.latitude) /\ Truthy(event.longitude) /\ Truthy(event.magnitude)

Threw == [threw |-> TRUE, events |-> <<>>]
Returned(events) == [threw |-> FALSE, events |-> events]

parseGeoJsonEvents(records) ==
    IF \E i \in 1..Len(records) : ThrowsOnTime(records[i]) THEN Threw
    ELSE Returned(FilterEvents([i \in 1..Len(records) |-> FeatureEvent(records[i])],
                               HasPositionAndMagnitude))

\* x ? parseFloat(x.value) : null
ValueOrNull(x) == IF x = Absent THEN Null ELSE parseFloat(x)

parseQuakeMLEvent(record) ==
    Normal(record.event_id,
           IF record.time = Absent THEN Null ELSE record.time,
           ValueOrNull(record.latitude),
           ValueOrNull(record.longitude),
           ValueOrNull(record.depth),
           ValueOrNull(record.magnitude))

parseXmlEvents(records) ==
    FilterEvents([i \in 1..Len(records) |-> parseQuakeMLEvent(records[i])], HasPosition)

MaxRaw == 1

\* a value, zero, or no value for each of latitude, longitude and magnitude;
\* a time or none; two event ids
RawRecords ==
    {Record(N(id), time, latitude, longitude, N(10), magnitude) :
        id \in {1, 2}, time \in {N(5), Absent},
        latitude \in {N(35), N(0), Absent}, longitude \in {N(139), N(0), Absent},
        magnitude \in {N(4), N(0), Absent}}

Loaders == {"loadFromCSV", "loadPicksFormat", "parseGeoJsonEvents", "parseXmlEvents"}

InitNormalize ==
    /\ via = "normalize"
    /\ IdleMatcher
    /\ IdleRun
    /\ IdleScore
    /\ IdleShared
    /\ IdleSummary
    /\ IdleTool
    /\ loader \in Loaders
    /\ rawEvents \in SeqsUpTo(RawRecords, MaxRaw)
    /\ normalized = Null

normalizeFrame == <<matcherVars, metricsVars, runVars, scoreVars, sharedVars,
                    summaryVars, toolVars, loader, rawEvents>>

Load(name, result) ==
    /\ loader = name
    /\ normalized = Null
    /\ normalized' = result
    /\ UNCHANGED normalizeFrame

Normalize_loadFromCSV == Load("loadFromCSV", Returned(loadFromCSV(rawEvents)))
Normalize_loadPicksFormat == Load("loadPicksFormat", Returned(loadPicksFormat(rawEvents)))
Normalize_parseGeoJsonEvents == Load("parseGeoJsonEvents", parseGeoJsonEvents(rawEvents))
Normalize_parseXmlEvents == Load("parseXmlEvents", Returned(parseXmlEvents(rawEvents)))

NextNormalize ==
    \/ Normalize_loadFromCSV
    \/ Normalize_loadPicksFormat
    \/ Normalize_parseGeoJsonEvents
    \/ Normalize_parseXmlEvents

SpecNormalize == InitNormalize /\ [][NextNormalize]_vars

(***************************************************************************)
(* The CallTool request handler (server, lines 469-506): the switch on the *)
(* tool name inside try, every case `return await this.handleX(args)`, the *)
(* default case throwing, and the catch building the error response.  A    *)
(* handler is an async function: it resolves with its content or rejects   *)
(* with an Error.  A text is the sequence of the parts of its template.    *)
(***************************************************************************)
KnownTools ==
    {"download_reference_catalog", "load_phasenet_detections", "match_events",
     "calculate_performance_metrics", "generate_comparison_report",
     "run_full_comparison"}

Error(message) == [message |-> message]

\* messages of the errors a handler rejects with
ErrorMessages(name) ==
    CASE name = "download_reference_catalog" ->
            {<<"Unsupported catalog source: ">>, <<"Network error: Unable to reach ">>,
             <<"Invalid GeoJSON format: missing features array">>}
      [] name = "load_phasenet_detections" ->
            {<<"Unsupported format: ">>, <<"File not found: ">>,
             <<"Error reading CSV file: ">>}
      [] name = "match_events" ->
            {<<"Unexpected token">>, <<"Unsupported file format: ">>}
      [] name = "calculate_performance_metrics" ->
            {<<"Unexpected token">>,
             <<"Cannot read properties of undefined (reading 'length')">>}
      [] name = "generate_comparison_report" ->
            {<<"Unexpected token">>, <<"ENOENT">>}
      [] name = "run_full_comparison" ->
            {<<"Full comparison workflow failed: ", "File not found: ">>, <<"EACCES">>}

\* the first text item of the content a handler resolves with
LeadText(name) ==
    CASE name = "download_reference_catalog" -> "Successfully downloaded "
      [] name = "load_phasenet_detections" -> "Successfully loaded "
      [] name = "match_events" -> "Event matching completed:"
      [] name = "calculate_performance_metrics" -> "Performance metrics calculated:"
      [] name = "generate_comparison_report" ->
            "Comparison report generated successfully at: "
      [] name = "run_full_comparison" ->
            "Complete comparison workflow finished successfully!"

TextItem(text) == [type |-> "text", text |-> text]

Resolved(value) == [rejected |-> FALSE, value |-> value]
Rejected(error) == [rejected |-> TRUE, error |-> error]

\* what the handler of a tool can settle with
HandlerOutcomes(name) ==
    {Resolved([content |-> <<TextItem(<<LeadText(name), n>>)>>]) : n \in 0..1}
    \cup {Rejected(Error(m)) : m \in ErrorMessages(name)}

\* the catch block
Caught(name, error) ==
    [content |-> <<TextItem(<<"Error executing tool '", name, "': ">> \o error.message)>>,
     isError |-> TRUE]

\* the request handler's promise rejects
Escaped(error) == [escaped |-> error]

\* variant: `return this.handleX(args)`, the rejection passes the try block
ReturnAwait_NotAwaited(name, settled) ==
    IF settled.rejected THEN Escaped(settled.error) ELSE settled.value

\* `return await this.handleX(args)` inside try: a rejection is thrown at
\* the await and caught
ReturnAwait(name, settled) ==
    IF settled.rejected THEN Caught(name, settled.error) ELSE settled.value

MaxRequests == 2
Requests == 1..MaxRequests
RequestNames == KnownTools \cup {"list_tools", ""}

ToolCall(name) == [name |-> name, pc |-> "received", outcome |-> Null, response |-> Null]

InitTool ==
    /\ via = "CallTool"
    /\ IdleMatcher
    /\ IdleRun
    /\ IdleScore
    /\ IdleShared
    /\ IdleSummary
    /\ IdleNormalize
    /\ toolCalls \in [Requests -> {ToolCall(name) : name \in RequestNames}]

toolFrame == <<matcherVars, metricsVars, runVars, scoreVars, sharedVars, summaryVars,
               normalizeVars>>

\* the switch finds the tool: its handler is called and awaited
CallTool_case(r) ==
    /\ toolCalls[r].pc = "received"
    /\ toolCalls[r].name \in KnownTools
    /\ toolCalls' = [toolCalls EXCEPT ![r].pc = "handler"]
    /\ UNCHANGED toolFrame

\* default: throw new Error(`Unknown tool: ${name}`), caught below
CallTool_default(r) ==
    /\ toolCalls[r].pc = "received"
    /\ toolCalls[r].name \notin KnownTools
    /\ toolCalls' =
          [toolCalls EXCEPT
             ![r].pc = "responded",
             ![r].outcome = Rejected(Error(<<"Unknown tool: ", toolCalls[r].name>>)),
             ![r].response = Caught(toolCalls[r].name,
                                    Error(<<"Unknown tool: ", toolCalls[r].name>>))]
    /\ UNCHANGED toolFrame

\* the handler settles and the request handler returns
CallTool_return(r) ==
    /\ toolCalls[r].pc = "handler"
    /\ \E settled \in HandlerOutcomes(toolCalls[r].name) :
          toolCalls' = [toolCalls EXCEPT
                          ![r].pc = "responded",
                          ![r].outcome = settled,
                          ![r].response = ReturnAwait(toolCalls[r].name, settled)]
    /\ UNCHANGED toolFrame

NextTool ==
    \/ \E r \in Requests : CallTool_case(r)
    \/ \E r \in Requests : CallTool_default(r)
    \/ \E r \in Requests : CallTool_return(r)

SpecTool == InitTool /\ [][NextTool]_vars

(***************************************************************************)
(* The score as the program computes it.  A JavaScript number is an IEEE   *)
(* 754 double: every /, * and + of calculateMatchScore rounds its exact    *)
(* result to 53 significant bits, to nearest, ties to even.  A double is   *)
(* held as [m, e] with value m * 2^e, m a natural number of at most 53     *)
(* bits, odd or zero, written as a little-endian sequence of limbs.  Only  *)
(* non-negative values far from overflow and underflow occur.              *)
(***************************************************************************)
RECURSIVE SmallBitLen(_)
SmallBitLen(n) == IF n = 0 THEN 0 ELSE 1 + SmallBitLen(n \div 2)

LimbBits == 15
Base == 2^LimbBits

RECURSIVE Trim(_)
Trim(a) ==
    IF a = <<>> THEN <<>>
    ELSE IF a[Len(a)] = 0 THEN Trim(SubSeq(a, 1, Len(a) - 1)) ELSE a

RECURSIVE BFromInt(_)
BFromInt(n) == IF n = 0 THEN <<>> ELSE <<n % Base>> \o BFromInt(n \div Base)

RECURSIVE BAddCarry(_, _, _)
BAddCarry(a, b, carry) ==
    IF a = <<>> /\ b = <<>> THEN (IF carry = 0 THEN <<>> ELSE <<carry>>)
    ELSE LET x == IF a = <<>> THEN 0 ELSE Head(a)
             y == IF b = <<>> THEN 0 ELSE Head(b)
             sum == x + y + carry
         IN <<sum % Base>>
            \o BAddCarry(IF a = <<>> THEN <<>> ELSE Tail(a),
                         IF b = <<>> THEN <<>> ELSE Tail(b), sum \div Base)
BAdd(a, b) == BAddCarry(a, b, 0)

\* a - b for a >= b
RECURSIVE BSubBorrow(_, _, _)
BSubBorrow(a, b, borrow) ==
    IF a = <<>> THEN <<>>
    ELSE LET y == IF b = <<>> THEN 0 ELSE Head(b)
             diff == Head(a) - y - borrow
         IN <<IF diff < 0 THEN diff + Base ELSE diff>>
            \o BSubBorrow(Tail(a), IF b = <<>> THEN <<>> ELSE Tail(b),
                          IF diff < 0 THEN 1 ELSE 0)
BSub(a, b) == Trim(BSubBorrow(a, b, 0))

RECURSIVE BLessFrom(_, _, _)
BLessFrom(a, b, i) ==
    IF i = 0 THEN FALSE
    ELSE IF a[i] # b[i] THEN a[i] < b[i] ELSE BLessFrom(a, b, i - 1)
BLess(a, b) ==
    IF Len(a) # Len(b) THEN Len(a) < Len(b) ELSE BLessFrom(a, b, Len(a))
BLessEq(a, b) == ~BLess(b, a)

RECURSIVE BMulSmall(_, _, _)
BMulSmall(a, k, carry) ==
    IF a = <<>> THEN (IF carry = 0 THEN <<>> ELSE <<carry>>)
    ELSE LET p == Head(a) * k + carry
         IN <<p % Base>> \o BMulSmall(Tail(a), k, p \div Base)

ShiftLimb(a) == IF a = <<>> THEN <<>> ELSE <<0>> \o a

RECURSIVE BMul(_, _)
BMul(a, b) ==
    IF a = <<>> \/ b = <<>> THEN <<>>
    ELSE BAdd(Trim(BMulSmall(a, Head(b), 0)), ShiftLimb(BMul(a, Tail(b))))

BPow2(k) ==
    [i \in 1..((k \div LimbBits) + 1) |->
        IF i = (k \div LimbBits) + 1 THEN 2^(k % LimbBits) ELSE 0]

\* a * 2^k
BShl(a, k) == IF k = 0 THEN a ELSE BMul(a, BPow2(k))

BBitLen(a) ==
    IF a = <<>> THEN 0 ELSE LimbBits * (Len(a) - 1) + SmallBitLen(a[Len(a)])

\* quotient and remainder of a by a divisor k of one limb, 0 < k < Base, from
\* the most significant limb a[i] down
RECURSIVE DivSmallFrom(_, _, _, _)
DivSmallFrom(a, k, i, rem) ==
    IF i = 0 THEN [q |-> <<>>, r |-> rem]
    ELSE LET cur == rem * Base + a[i]
             rest == DivSmallFrom(a, k, i - 1, cur % k)
         IN [q |-> Append(rest.q, cur \div k), r |-> rest.r]
BDivSmall(a, k) ==
    LET qr == DivSmallFrom(a, k, Len(a), 0) IN [q |-> Trim(qr.q), r |-> qr.r]

\* a \div 2^s
BShr(a, s) ==
    LET whole == s \div LimbBits
    IN IF whole >= Len(a) THEN <<>>
       ELSE BDivSmall(SubSeq(a, whole + 1, Len(a)), 2^(s % LimbBits)).q

RECURSIVE TrailingZeros(_)
TrailingZeros(a) ==
    IF Head(a) = 0 THEN LimbBits + TrailingZeros(Tail(a))
    ELSE IF Head(a) % 2 = 0 THEN 1 + TrailingZeros(<<Head(a) \div 2>>) ELSE 0

Double(m, e) == [m |-> m, e |-> e]
DZero == Double(<<>>, 0)

\* the canonical form: m odd
Strip(m, e) ==
    LET tz == TrailingZeros(m)
    IN IF tz = 0 THEN Double(m, e) ELSE Double(BShr(m, tz), e + tz)

SignificandBits == 53

\* round m * 2^e to a double: to nearest, ties to even
RoundToDouble(m, e) ==
    IF m = <<>> THEN DZero
    ELSE LET len == BBitLen(m)
         IN IF len <= SignificandBits THEN Strip(m, e)
            ELSE LET s == len - SignificandBits
                     kept == BShr(m, s)
                     dropped == BSub(m, BShl(kept, s))
                     half == BPow2(s - 1)
                     odd == kept[1] % 2 = 1
                     up == BLess(half, dropped) \/ (dropped = half /\ odd)
                 IN Strip(IF up THEN BAdd(kept, <<1>>) ELSE kept, e + s)

DFromInt(n) == RoundToDouble(BFromInt(n), 0)

MinOf(x, y) == IF x < y THEN x ELSE y

\* x * y
DMul(x, y) == RoundToDouble(BMul(x.m, y.m), x.e + y.e)

\* x + y
DAdd(x, y) ==
    IF x.m = <<>> THEN y
    ELSE IF y.m = <<>> THEN x
    ELSE LET e == MinOf(x.e, y.e)
         IN RoundToDouble(BAdd(BShl(x.m, x.e - e), BShl(y.m, y.e - e)), e)

\* x / y for a divisor y # 0 whose odd part fits one limb (an integer below
\* Base, or one times a power of two): the quotient to two bits more than a significand, and
\* a sticky bit for the remainder
DDiv(x, y) ==
    IF x.m = <<>> THEN DZero
    ELSE LET k0 == SignificandBits + 2 + BBitLen(y.m) - BBitLen(x.m)
             k == IF k0 < 0 THEN 0 ELSE k0
             dm == BDivSmall(BShl(x.m, k), y.m[1])
             q2 == BAdd(BAdd(dm.q, dm.q), IF dm.r = 0 THEN <<>> ELSE <<1>>)
         IN RoundToDouble(q2, x.e - y.e - k - 1)

\* x <= y
DLessEq(x, y) ==
    LET e == MinOf(x.e, y.e)
    IN BLessEq(BShl(x.m, x.e - e), BShl(y.m, y.e - e))

\* the literals 0.4, 0.15, 0.05: the doubles nearest to 40/100, 15/100, 5/100
Literal(hundredths) == DDiv(DFromInt(hundredths), DFromInt(100))

\* calculateMatchScore on doubles, for numeric differences and thresholds
matchScoreAsDouble(timeDiff, distance, magnitudeDiff, depthDiff, c) ==
    LET timeScore == DMul(DDiv(DFromInt(timeDiff.v), DFromInt(c.timeWindow.v)),
                          Literal(TimeWeight))
        distanceScore == DMul(DDiv(DFromInt(distance.v),
                                   DFromInt(c.distanceThreshold.v)),
                              Literal(DistanceWeight))
        magnitudeScore == IF magnitudeDiff # Null
                          THEN DMul(DDiv(DFromInt(magnitudeDiff.v),
                                         DFromInt(c.magnitudeDiffThreshold.v)),
                                    Literal(MagnitudeWeight))
                          ELSE DZero
        depthScore == DMul(DDiv(DFromInt(depthDiff.v), DFromInt(c.depthDiffThreshold.v)),
                           Literal(DepthWeight))
    IN DAdd(DAdd(DAdd(timeScore, distanceScore), magnitudeScore), depthScore)

\* variant: matchScore < maxScore
filterMatchesByQuality_Below(ms, maxScore) ==
    LET max == IF maxScore = Undef THEN DFromInt(1) ELSE maxScore
    IN SelectSeq(ms, LAMBDA match : ~DLessEq(max, match.matchScore))

\* filterMatchesByQuality(matches, maxScore = 1.0)
filterMatchesByQuality(ms, maxScore) ==
    LET max == IF maxScore = Undef THEN DFromInt(1) ELSE maxScore
    IN SelectSeq(ms, LAMBDA match : DLessEq(match.matchScore, max))

(***************************************************************************)
(* filterMatchesByQuality applied to the matches of a matchEvents result   *)
(* with positive thresholds.  A pair becomes a match only if it passes the *)
(* four filters of the inner loop (lines 59-89), so each difference of a   *)
(* match is at most its threshold, and its matchScore is the double that   *)
(* calculateMatchScore computes from them (lines 92-94).                   *)
(***************************************************************************)
MaxMatches == 2

\* the differences up to MaxDiff that pass a threshold
Passing(threshold) == {N(x) : x \in 0..MinOf(MaxDiff, threshold.v)}
\* the least and the greatest difference that pass a threshold
Extremes(threshold) == {N(0), threshold}

ScoredPair(t, d, m, z, c) ==
    [timeDiff |-> t, distance |-> d, magnitudeDiff |-> m, depthDiff |-> z,
     matchScore |-> matchScoreAsDouble(t, d, m, z, c)]

ScoredPairs(c) ==
    {ScoredPair(t, d, m, z, c) :
        t \in Passing(c.timeWindow), d \in Extremes(c.distanceThreshold),
        m \in {Null, c.magnitudeDiffThreshold}, z \in Extremes(c.depthDiffThreshold)}

\* the maxScore argument: left out, 0.4 or 0.85
MaxScores == {Undef, Literal(TimeWeight), Literal(100 - MagnitudeWeight)}

InitQuality ==
    /\ via = "filterMatchesByQuality"
    /\ IdleMatcher
    /\ IdleRun
    /\ IdleScore
    /\ IdleShared
    /\ IdleNormalize
    /\ IdleTool
    /\ matchingSummary = Null
    /\ \E k \in PositiveThresholds, n \in 0..MaxMatches, maxScore \in MaxScores :
          \E pairs \in [1..n -> ScoredPairs(Crit(k, k, k, k))] :
             qualityFilter =
                 [matches |-> [i \in 1..n |-> [referenceIndex |-> i - 1] @@ pairs[i]],
                  maxScore |-> maxScore,
                  called |-> FALSE,
                  returned |-> <<>>]

FilterMatchesByQuality ==
    /\ via = "filterMatchesByQuality"
    /\ ~qualityFilter.called
    /\ qualityFilter' =
          [qualityFilter EXCEPT
              !.called = TRUE,
              !.returned = filterMatchesByQuality(qualityFilter.matches,
                                                  qualityFilter.maxScore)]
    /\ UNCHANGED <<matcherVars, metricsVars, runVars, scoreVars, sharedVars,
                   matchingSummary, normalizeVars, toolVars>>

NextQuality == FilterMatchesByQuality

SpecQuality == InitQuality /\ [][NextQuality]_vars

(***************************************************************************)
(* Notions the properties are stated with, defined on the caller's events  *)
(* and on the differences of a pair.                                       *)
(***************************************************************************)
RefIndicesOf(ms) == {ms[k].referenceIndex : k \in 1..Len(ms)}
DetIndicesOf(ms) == {ms[k].detectedIndex : k \in 1..Len(ms)}

\* the k-th smallest element of a set of integers
NthOf(S, k) == CHOOSE x \in S : Cardinality({y \in S : y < x}) = k - 1

\* the events whose 0-based index is not in indices, in list order
EventsNotIn(events, indices) ==
    LET U == (0..(Len(events) - 1)) \ indices
    IN [k \in 1..Cardinality(U) |-> events[NthOf(U, k) + 1]]

\* diff <= threshold, both numbers
Within(diff, threshold) == IsNum(diff) /\ IsNum(threshold) /\ diff.v <= threshold.v
\* diff > threshold, both numbers
Exceeds(diff, threshold) == IsNum(diff) /\ IsNum(threshold) /\ diff.v > threshold.v

\* the pair passes the four hard filters (magnitude only when it has a
\* magnitude difference)
PassesFilters(d, c) ==
    /\ Within(d.timeDiff, c.timeWindow)
    /\ Within(d.distance, c.distanceThreshold)
    /\ (d.magnitudeDiff = Null \/ Within(d.magnitudeDiff, c.magnitudeDiffThreshold))
    /\ Within(d.depthDiff, c.depthDiffThreshold)

MagnitudeAbsent(e) == e.magnitude \in {Null, Undef}

\* the differences of two events: seconds between the times, km between the
\* positions, magnitude difference when both have one, depth difference with
\* a missing depth taken as 10 km
EventTimeDiff(r, d) ==
    IF IsNum(r.time) /\ IsNum(d.time) THEN N(Abs(r.time.v - d.time.v)) ELSE NaN
EventDistance(r, d) ==
    IF IsNum(r.latitude) /\ IsNum(d.latitude) /\ r.longitude = d.longitude
       /\ IsNum(r.longitude)
    THEN N(Abs(r.latitude.v - d.latitude.v)) ELSE NaN
EventMagnitudeDiff(r, d) ==
    IF MagnitudeAbsent(r) \/ MagnitudeAbsent(d) THEN Null
    ELSE N(Abs(r.magnitude.v - d.magnitude.v))
EventDepth(e) == IF IsNum(e.depth_km) THEN e.depth_km.v ELSE 10
EventDepthDiff(r, d) == N(Abs(EventDepth(r) - EventDepth(d)))

RefOf(x) == referenceEvents[x.referenceIndex + 1]
DetOf(x) == detectedEvents[x.detectedIndex + 1]

\* the detected indices claimed by the matches of reference events before i
ClaimedBefore(i) ==
    {matches[k].detectedIndex : k \in {n \in 1..Len(matches) : matches[n].referenceIndex < i}}

ExaminedOf(i) == {e \in examined : e.referenceIndex = i}

(***************************************************************************)
(* C1: each detected index and each reference index appears in at most one *)
(* matched pair, in every state of the matching loop and in the result.    *)
(***************************************************************************)
OnePairPerIndex(ms) ==
    \A a, b \in 1..Len(ms) :
        a # b => /\ ms[a].detectedIndex # ms[b].detectedIndex
                 /\ ms[a].referenceIndex # ms[b].referenceIndex

C1_AtMostOnePair == OnePairPerIndex(matches) /\ OnePairPerIndex(results.matches)

\* two reference events matched, to two copies of the same detected event
C1_Witness ==
    /\ outcome = "returned"
    /\ Len(results.matches) = 2
    /\ detectedEvents[results.matches[1].detectedIndex + 1]
         = detectedEvents[results.matches[2].detectedIndex + 1]

(***************************************************************************)
(* C2: the returned matches, unmatchedReference and unmatchedDetected      *)
(* partition the inputs, the unmatched lists are exactly the events whose  *)
(* index is in no match, and the summary counts are the sizes.             *)
(***************************************************************************)
C2_Partition ==
    outcome = "returned" =>
        LET M == results.matches IN
        /\ Len(M) + Len(results.unmatchedReference) = Len(referenceEvents)
        /\ Len(M) + Len(results.unmatchedDetected) = Len(detectedEvents)
        /\ results.unmatchedReference = EventsNotIn(referenceEvents, RefIndicesOf(M))
        /\ results.unmatchedDetected = EventsNotIn(detectedEvents, DetIndicesOf(M))
        /\ results.summary.totalReference = Len(referenceEvents)
        /\ results.summary.totalDetected = Len(detectedEvents)
        /\ results.summary.matchedPairs = Len(M)
        /\ results.summary.unmatchedReference = Len(results.unmatchedReference)
        /\ results.summary.unmatchedDetected = Len(results.unmatchedDetected)

\* a result with a match, an unmatched reference event before the matched one
\* and an unmatched detected event
C2_Witness ==
    /\ outcome = "returned"
    /\ Len(results.matches) = 1
    /\ results.matches[1].referenceIndex = 1
    /\ Len(results.unmatchedReference) = 1
    /\ Len(results.unmatchedDetected) = 1

(***************************************************************************)
(* C3: every matched pair passes the four hard filters, and its recorded   *)
(* timeDiff, distance, magnitudeDiff and depthDiff are the differences of  *)
(* its two events.                                                         *)
(***************************************************************************)
C3_MatchedPairsPassFilters ==
    \A k \in 1..Len(matches) :
        LET m == matches[k]
            r == RefOf(m)
            d == DetOf(m)
        IN /\ m.timeDiff = EventTimeDiff(r, d)
           /\ m.distance = EventDistance(r, d)
           /\ m.magnitudeDiff = EventMagnitudeDiff(r, d)
           /\ m.depthDiff = EventDepthDiff(r, d)
           /\ PassesFilters(m, matchingCriteria)

(***************************************************************************)
(* C4: the candidate matched to a reference event has the minimum score    *)
(* among the candidates that were unclaimed when the reference event was   *)
(* processed and pass all hard filters; among equal minimum scores the     *)
(* smallest detected index is chosen.                                      *)
(***************************************************************************)
C4_MinimumScore ==
    \A k \in 1..Len(matches) :
        LET m == matches[k]
            i == m.referenceIndex
            candidates == {e \in ExaminedOf(i) : PassesFilters(e.cmp, matchingCriteria)}
        IN /\ {e.detectedIndex : e \in ExaminedOf(i)}
                = (0..(Len(detectedEvents) - 1)) \ ClaimedBefore(i)
           /\ \E e \in candidates : /\ e.detectedIndex = m.detectedIndex
                                    /\ e.cmp.matchScore = m.matchScore
           /\ \A e \in candidates :
                /\ ~ScoreLess(e.cmp.matchScore, m.matchScore)
                /\ e.cmp.matchScore = m.matchScore => m.detectedIndex <= e.detectedIndex

\* a tie between two different candidates (3 s away, 1 km away): the first wins
C4_Witness ==
    \E k \in 1..Len(matches) :
        \E e \in ExaminedOf(matches[k].referenceIndex) :
            /\ PassesFilters(e.cmp, matchingCriteria)
            /\ e.cmp.matchScore = matches[k].matchScore
            /\ e.detectedIndex > matches[k].detectedIndex
            /\ DetOf(e) # DetOf(matches[k])

(***************************************************************************)
(* C5: a reference event for which some unclaimed candidate passes all     *)
(* four hard filters when it is processed gets a match, whatever the       *)
(* score.                                                                  *)
(***************************************************************************)
C5_CommitsWhenCandidatePasses ==
    \A i \in 0..(refIdx - 1) :
        (\E e \in ExaminedOf(i) : PassesFilters(e.cmp, matchingCriteria))
            => i \in RefIndicesOf(matches)

(***************************************************************************)
(* C6: the hard thresholds are inclusive.  For every pair the inner loop   *)
(* compares, with numeric differences and thresholds: the pair is rejected *)
(* by the first filter whose difference exceeds its threshold, and it is   *)
(* accepted (scored) when no difference exceeds, in particular when a      *)
(* difference equals its threshold; the time difference and the distance   *)
(* are those of the two events.  The sample run gives 3 matched pairs.     *)
(***************************************************************************)
AllNumeric(d, c) ==
    /\ IsNum(d.timeDiff) /\ IsNum(d.distance) /\ IsNum(d.depthDiff)
    /\ d.magnitudeDiff = Null \/ IsNum(d.magnitudeDiff)
    /\ IsNum(c.timeWindow) /\ IsNum(c.distanceThreshold)
    /\ IsNum(c.magnitudeDiffThreshold) /\ IsNum(c.depthDiffThreshold)

C7_MagnitudeOptional ==
    /\ \A e \in examined :
         LET d == e.cmp
             c == matchingCriteria
         IN IF MagnitudeAbsent(RefOf(e)) \/ MagnitudeAbsent(DetOf(e))
            THEN /\ d.outcome # "magnitude"
                 /\ d.magnitudeDiff = Null
                 /\ d.matchScore
                      = Plus(Plus(Term(d.timeDiff, c.timeWindow, TimeWeight),
                                  Term(d.distance, c.distanceThreshold, DistanceWeight)),
                             Term(d.depthDiff, c.depthDiffThreshold, DepthWeight))
            ELSE /\ d.magnitudeDiff
                      = N(Abs(RefOf(e).magnitude.v - DetOf(e).magnitude.v))
                 /\ Exceeds(d.magnitudeDiff, c.magnitudeDiffThreshold)
                      => d.outcome # "scored"
    /\ \A k \in 1..Len(matches) :
         matches[k].magnitudeDiff = EventMagnitudeDiff(RefOf(matches[k]), DetOf(matches[k]))

\* a match of an event without magnitude (undefined) to one with a magnitude,
\* and a pair with both magnitudes rejected on magnitude
C7_Witness ==
    /\ \E k \in 1..Len(matches) :
          /\ RefOf(matches[k]).magnitude = Undef
          /\ IsNum(DetOf(matches[k]).magnitude)
          /\ matches[k].magnitudeDiff = Null
    /\ \E e \in examined : e.cmp.outcome = "magnitude"

(***************************************************************************)
(* C8: a depth that is present, 0 km included, is used unchanged: for two  *)
(* events that both have a depth, depthDiff is the absolute difference of  *)
(* the two depths.                                                         *)
(***************************************************************************)
C8_PresentDepthUnchanged ==
    \A e \in examined :
        (IsNum(RefOf(e).depth_km) /\ IsNum(DetOf(e).depth_km))
            => e.cmp.depthDiff = N(Abs(RefOf(e).depth_km.v - DetOf(e).depth_km.v))

(***************************************************************************)
(* C9: a run that compares an event whose time, latitude or longitude is   *)
(* not a finite number ends in an error, not in a returned result.         *)
(***************************************************************************)
NonFiniteCompared(e) ==
    \/ ~IsNum(RefOf(e).time) \/ ~IsNum(DetOf(e).time)
    \/ /\ e.cmp.outcome # "time"
       /\ \/ ~IsNum(RefOf(e).latitude) \/ ~IsNum(RefOf(e).longitude)
          \/ ~IsNum(DetOf(e).latitude) \/ ~IsNum(DetOf(e).longitude)

C9_NonFiniteIsError ==
    (pc = "done" /\ \E e \in examined : NonFiniteCompared(e)) => outcome = "error"

(***************************************************************************)
(* C10: a matching request with a zero or negative threshold ends in an    *)
(* error; the value is neither replaced by a default nor used to produce a *)
(* result.                                                                 *)
(***************************************************************************)
NonPositive(x) == IsNum(x) /\ x.v <= 0

RequestHasNonPositiveThreshold ==
    IF via = "matchEvents"
    THEN \E x \in {criteria.timeWindow, criteria.distanceThreshold,
                   criteria.magnitudeDiffThreshold, criteria.depthDiffThreshold} :
            NonPositive(x)
    ELSE \E x \in {args.time_window, args.distance_threshold,
                   args.magnitude_diff_threshold} : NonPositive(x)

C10_NonPositiveThresholdIsError ==
    (pc = "done" /\ RequestHasNonPositiveThreshold) => outcome = "error"

(***************************************************************************)
(* Notions for the metrics: the counts of the object the metrics were      *)
(* computed from.                                                          *)
(***************************************************************************)
TP == Len(matchingResults.matches)
FP == Len(matchingResults.unmatchedDetected)
FN == Len(matchingResults.unmatchedReference)

IsFinite(x) == x.k = "fin"
\* the ratio n/d of two counts with d > 0, and 0 for d = 0
RatioOrZero(n, d) == IF d = 0 THEN Fin(0, 1) ELSE Fin(n, d)
\* f * (p + r) = 2 * p * r on rationals
IsHarmonicMean(f, p, r) == f.n * (p.n * r.d + r.n * p.d) = f.d * 2 * p.n * r.n

(***************************************************************************)
(* C11: the metrics are always finite numbers: precision and               *)
(* falseAlarmRate are 0 when TP + FP = 0, recall and detectionRate are 0   *)
(* when TP + FN = 0, f1Score is 0 when precision + recall = 0; otherwise   *)
(* each equals its ratio.                                                  *)
(***************************************************************************)
C11_ZeroDenominators ==
    pc = "metrics" =>
        /\ \A x \in {metrics.precision, metrics.recall, metrics.f1Score,
                      metrics.detectionRate, metrics.falseAlarmRate} : IsFinite(x)
        /\ metrics.precision = RatioOrZero(TP, TP + FP)
        /\ metrics.recall = RatioOrZero(TP, TP + FN)
        /\ metrics.detectionRate = RatioOrZero(TP, TP + FN)
        /\ metrics.falseAlarmRate = RatioOrZero(FP, TP + FP)
        /\ IF metrics.precision.n = 0 /\ metrics.recall.n = 0
           THEN metrics.f1Score = Fin(0, 1)
           ELSE IsHarmonicMean(metrics.f1Score, metrics.precision, metrics.recall)

\* a run with reference events and no detected event: TP + FP = 0
C11_Witness ==
    /\ pc = "metrics"
    /\ TP + FP = 0
    /\ FN > 0
    /\ metrics.precision = Fin(0, 1)
    /\ metrics.f1Score = Fin(0, 1)

\* a run with a proper ratio: one of two detected events matched
C11_WitnessRatio ==
    /\ pc = "metrics"
    /\ TP = 1 /\ FP = 1 /\ FN = 0
    /\ metrics.precision = Fin(1, 2)
    /\ metrics.f1Score = Fin(2, 3)

(***************************************************************************)
(* C12: truePositives, falsePositives and falseNegatives count the         *)
(* matches, the unmatched detected and the unmatched reference events;     *)
(* detectionRate equals recall; falseAlarmRate is FP / (TP + FP);          *)
(* totalReference = TP + FN and totalDetected = TP + FP, which for a       *)
(* result of matchEvents are the lengths of the two input lists.  Two      *)
(* matches and one unmatched detected event give precision 2/3, recall 1.  *)
(***************************************************************************)
C12_MetricsFields ==
    pc = "metrics" =>
        /\ metrics.truePositives = Len(matchingResults.matches)
        /\ metrics.falsePositives = Len(matchingResults.unmatchedDetected)
        /\ metrics.falseNegatives = Len(matchingResults.unmatchedReference)
        /\ metrics.detectionRate = metrics.recall
        /\ (TP + FP > 0 => metrics.precision = Fin(TP, TP + FP))
        /\ (TP + FN > 0 => metrics.recall = Fin(TP, TP + FN))
        /\ (TP + FP > 0 => metrics.falseAlarmRate = Fin(FP, TP + FP))
        /\ metrics.totalReference = TP + FN
        /\ metrics.totalDetected = TP + FP
        /\ (via # "handleCalculateMetrics" =>
               /\ metrics.totalReference = Len(referenceEvents)
               /\ metrics.totalDetected = Len(detectedEvents))
        /\ ((TP = 2 /\ FP = 1 /\ FN = 0) =>
               /\ metrics.precision = Fin(2, 3)
               /\ metrics.recall = Fin(1, 1))

\* the mock results of the server test
C12_Witness ==
    /\ pc = "metrics"
    /\ via = "handleCalculateMetrics"
    /\ metrics.truePositives = 2
    /\ metrics.falsePositives = 1
    /\ metrics.totalDetected = 3
    /\ metrics.precision = Fin(2, 3)
    /\ metrics.recall = Fin(1, 1)

\* a matcher run with an unmatched event on each side
C12_WitnessRun ==
    /\ pc = "metrics"
    /\ via = "matchEvents"
    /\ TP = 1 /\ FP = 1 /\ FN = 1
    /\ metrics.totalReference = 2
    /\ metrics.totalDetected = 2

(***************************************************************************)
(* C13: residualStats is null exactly when there is no match; otherwise    *)
(* the time and distance statistics count every match, and the magnitude   *)
(* statistics are computed over the matched pairs in which both events     *)
(* have a magnitude, and are null when there is no such pair.              *)
(***************************************************************************)
\* the matches of a matcher run whose two events both have a magnitude
WithBothMagnitudes ==
    {k \in 1..Len(matchingResults.matches) :
        /\ ~MagnitudeAbsent(RefOf(matchingResults.matches[k]))
        /\ ~MagnitudeAbsent(DetOf(matchingResults.matches[k]))}
\* for parsed results, which carry no events, those with a magnitude difference
WithMagnitudeDiff ==
    {k \in 1..Len(matchingResults.matches) :
        matchingResults.matches[k].magnitudeDiff # Null}
MagnitudePairs ==
    IF via = "handleCalculateMetrics" THEN WithMagnitudeDiff ELSE WithBothMagnitudes

RECURSIVE SumOver(_, _)
SumOver(S, f) ==
    IF S = {} THEN 0
    ELSE LET k == CHOOSE x \in S : TRUE IN f[k] + SumOver(S \ {k}, f)

\* the magnitude differences of the pairs, from the events of a matcher run
PairMagnitudeDiff ==
    [k \in MagnitudePairs |->
        IF via = "handleCalculateMetrics"
        THEN matchingResults.matches[k].magnitudeDiff.v
        ELSE EventMagnitudeDiff(RefOf(matchingResults.matches[k]),
                                DetOf(matchingResults.matches[k])).v]

C13_ResidualStats ==
    pc = "metrics" =>
        /\ (metrics.residualStats = Null) <=> (Len(matchingResults.matches) = 0)
        /\ Len(matchingResults.matches) > 0 =>
              LET stats == metrics.residualStats
                  P == MagnitudePairs
              IN /\ stats.time # Null /\ stats.distance # Null
                 /\ stats.time.count = Len(matchingResults.matches)
                 /\ stats.distance.count = Len(matchingResults.matches)
                 /\ (stats.magnitude = Null) <=> (P = {})
                 /\ P # {} =>
                       /\ stats.magnitude.count = Cardinality(P)
                       /\ stats.magnitude.mean
                            = Fin(SumOver(P, PairMagnitudeDiff), Cardinality(P))
                       /\ \A k \in P :
                             /\ stats.magnitude.min <= PairMagnitudeDiff[k]
                             /\ stats.magnitude.max >= PairMagnitudeDiff[k]

\* two matches, only one of them between events that both have a magnitude
C13_Witness ==
    /\ pc = "metrics"
    /\ via = "matchEvents"
    /\ Len(matchingResults.matches) = 2
    /\ Cardinality(WithBothMagnitudes) = 1
    /\ metrics.residualStats.time.count = 2
    /\ metrics.residualStats.magnitude.count = 1

\* matches, none of them with both magnitudes: no magnitude statistics
C13_WitnessNoMagnitude ==
    /\ pc = "metrics"
    /\ via = "matchEvents"
    /\ Len(matchingResults.matches) > 0
    /\ WithBothMagnitudes = {}
    /\ metrics.residualStats # Null
    /\ metrics.residualStats.magnitude = Null

(***************************************************************************)
(* C14: a full comparison takes its steps in the order download, load,     *)
(* match, metrics, persist, report; a step is started only after every     *)
(* earlier step succeeded; the matcher receives the complete lists the     *)
(* two acquisition steps delivered.                                        *)
(***************************************************************************)
StepsInOrder ==
    <<"mkdir", "download", "load", "match", "metrics", "writeMatches", "writeMetrics",
      "report">>

HasStarted(s) == \E i \in 1..Len(log) : log[i] = s

C14_StepOrder ==
    /\ Len(log) <= Len(StepsInOrder)
    /\ log = SubSeq(StepsInOrder, 1, Len(log))
    /\ failure # Null => /\ Len(log) > 0
                         /\ failure.at = log[Len(log)]
                         /\ step = "failed"
    /\ HasStarted("match") =>
          /\ referenceEvents = catalog
          /\ detectedEvents = detections
          /\ results = MatchAll(catalog, detections, criteria)
          /\ results.summary.totalReference = Len(catalog)
          /\ results.summary.totalDetected = Len(detections)
          /\ Len(results.matches) + Len(results.unmatchedReference) = Len(catalog)
          /\ Len(results.matches) + Len(results.unmatchedDetected) = Len(detections)
    /\ HasStarted("metrics") => metrics = calculatePerformanceMetrics(results)

\* a run that went through every step, on two lists of two events
C14_Witness ==
    /\ step = "returned"
    /\ log = StepsInOrder
    /\ Len(catalog) = 2
    /\ Len(detections) = 2
    /\ Len(results.matches) = 1
    /\ returned.summary.totalReferenceEvents = 2

(***************************************************************************)
(* C15: when a step fails (creating the output directory, download,        *)
(* loading, writing a file, the report) no later step is executed, no      *)
(* result is returned, and the error the run rejects with carries the      *)
(* originating error together with a context that names the failed step.   *)
(***************************************************************************)
CarriesOrigin(error, origin) ==
    /\ Len(error.message) >= Len(origin.message)
    /\ SubSeq(error.message, Len(error.message) - Len(origin.message) + 1,
              Len(error.message)) = origin.message
NamesStep(error, s) == \E i \in 1..Len(error.message) : error.message[i] = s

C15_FailureNamesStep ==
    step = "failed" =>
        /\ failure.at = log[Len(log)]
        /\ returned = Null
        /\ CarriesOrigin(thrown, failure.error)
        /\ NamesStep(thrown, failure.at)

\* the parts of C15 that hold: nothing after the failed step, no result, the
\* originating message kept
C15_AbortsAndKeepsMessage ==
    step = "failed" =>
        /\ failure.at = log[Len(log)]
        /\ returned = Null
        /\ CarriesOrigin(thrown, failure.error)

(***************************************************************************)
(* C16: a run that fails has handed none of its outputs                    *)
(* (event_matches.json, performance_metrics.json, the report) to           *)
(* persistence.                                                            *)
(***************************************************************************)
C16_NoPartialResults == step = "failed" => files = {}

(***************************************************************************)
(* C17: matching is not symmetric in the roles of the two catalogs: for    *)
(* the catalogs A (events at 30 s and 31 s) and B (events at 0 s and 31 s, *)
(* same place) under the default criteria, the pairs of matchEvents(A, B)  *)
(* differ from the pairs of matchEvents(B, A) with the roles swapped back. *)
(***************************************************************************)
CatalogA == << At(N(30), N(0)), At(N(31), N(0)) >>
CatalogB == << At(N(0), N(0)), At(N(31), N(0)) >>

\* (index in the reference list, index in the detected list) of each match
PairsOf(ms) == {<<ms[k].referenceIndex, ms[k].detectedIndex>> : k \in 1..Len(ms)}
\* the pairs of a run with the lists exchanged, roles swapped back
SwappedPairsOf(ms) == {<<ms[k].detectedIndex, ms[k].referenceIndex>> : k \in 1..Len(ms)}

MatchedAWithB ==
    /\ outcome = "returned"
    /\ via = "matchEvents"
    /\ referenceEvents = CatalogA
    /\ detectedEvents = CatalogB
    /\ criteria = NoCriteria

C17_NotSymmetric ==
    MatchedAWithB =>
        PairsOf(results.matches)
            # SwappedPairsOf(MatchAll(CatalogB, CatalogA, criteria).matches)

\* A against B pairs the 30 s event with the 31 s event and leaves the rest;
\* B against A pairs 0 s with 30 s and 31 s with 31 s
C17_Witness ==
    /\ MatchedAWithB
    /\ PairsOf(results.matches) = {<<0, 1>>}
    /\ SwappedPairsOf(MatchAll(CatalogB, CatalogA, criteria).matches)
         = {<<0, 0>>, <<1, 1>>}

(***************************************************************************)
(* C18: the score is 0.4 * timeDiff / timeWindow + 0.4 * distance /        *)
(* distanceThreshold + 0.15 * magnitudeDiff / magnitudeDiffThreshold +     *)
(* 0.05 * depthDiff / depthDiffThreshold, the magnitude term being 0 for a *)
(* null magnitudeDiff; for non-negative differences and positive           *)
(* thresholds it is non-negative and does not decrease when one            *)
(* difference grows.                                                       *)
(***************************************************************************)
\* the score of the arguments with one difference one unit larger
ScoreWith(a, timeDiff, distance, magnitudeDiff, depthDiff) ==
    calculateMatchScore(timeDiff, distance, magnitudeDiff, depthDiff, a.criteria)
OneMore(x) == N(x.v + 1)

\* the score, in hundredths, equals the weighted sum: both sides multiplied
\* by the four thresholds
IsWeightedSum(s, a) ==
    LET tw == a.criteria.timeWindow.v
        dt == a.criteria.distanceThreshold.v
        mt == a.criteria.magnitudeDiffThreshold.v
        zt == a.criteria.depthDiffThreshold.v
        m == IF a.magnitudeDiff = Null THEN 0 ELSE a.magnitudeDiff.v
    IN /\ s.k = "fin"
       /\ s.n * tw * dt * mt * zt
            = s.d * (40 * a.timeDiff.v * dt * mt * zt
                     + 40 * a.distance.v * tw * mt * zt
                     + 15 * m * tw * dt * zt
                     + 5 * a.depthDiff.v * tw * dt * mt)

C18_WeightedSum ==
    score # Null =>
        LET a == scoreArgs IN
        /\ IsWeightedSum(score, a)
        /\ score.n >= 0
        /\ ~ScoreLess(ScoreWith(a, OneMore(a.timeDiff), a.distance, a.magnitudeDiff,
                                a.depthDiff), score)
        /\ ~ScoreLess(ScoreWith(a, a.timeDiff, OneMore(a.distance), a.magnitudeDiff,
                                a.depthDiff), score)
        /\ ~ScoreLess(ScoreWith(a, a.timeDiff, a.distance, a.magnitudeDiff,
                                OneMore(a.depthDiff)), score)
        /\ a.magnitudeDiff # Null =>
              ~ScoreLess(ScoreWith(a, a.timeDiff, a.distance, OneMore(a.magnitudeDiff),
                                   a.depthDiff), score)

\* all four differences at half their thresholds: 0.2 + 0.2 + 0.075 + 0.025
C18_Witness ==
    /\ score # Null
    /\ scoreArgs = ScoreArgs(N(1), N(1), N(1), N(1), Crit(N(2), N(2), N(2), N(2)))
    /\ score = Fin(50, 1)

\* a null magnitude difference: 0.4 * 2 + 0.4 * 1 + 0 + 0.05 * 1 / 2
C18_WitnessNull ==
    /\ score # Null
    /\ scoreArgs = ScoreArgs(N(2), N(1), Null, N(1), Crit(N(1), N(1), N(1), N(2)))
    /\ score = Fin(245, 2)

(***************************************************************************)
(* C19: requests served concurrently by the same EventMatcher do not       *)
(* interfere: whatever the interleaving, the result and the metrics of     *)
(* each request are those of the request executed alone on a new matcher,  *)
(* and the matcher's defaultCriteria are never changed.                    *)
(***************************************************************************)
AloneResult(call) ==
    MatchAll(call.referenceEvents, call.detectedEvents, call.criteria)

C19_RunsDoNotInterfere ==
    /\ thisDefaultCriteria = defaultCriteria
    /\ \A r \in DOMAIN calls :
          /\ calls[r].pc \in {"matched", "done"} => calls[r].results = AloneResult(calls[r])
          /\ calls[r].pc = "done"
               => calls[r].metrics = calculatePerformanceMetrics(AloneResult(calls[r]))

\* two finished requests for the same lists: one with a 60 s window, which
\* matched a pair 31 s apart, and one with no criteria, which still applied
\* the 30 s default
C19_Witness ==
    /\ calls # <<>>
    /\ calls[1].criteria = Crit(N(60), Absent, Absent, Absent)
    /\ calls[2].criteria = NoCriteria
    /\ calls[1].detectedEvents = calls[2].detectedEvents
    /\ calls[1].referenceEvents = calls[2].referenceEvents
    /\ calls[1].pc = "done"
    /\ calls[2].pc = "done"
    /\ Len(calls[1].results.matches) = 1
    /\ Len(calls[2].results.matches) = 0
    /\ calls[2].results.matchingCriteria.timeWindow = N(30)

(***************************************************************************)
(* C20: the thresholds given as matching_criteria to run_full_comparison   *)
(* (time_window, distance_threshold, magnitude_diff_threshold) are the     *)
(* thresholds the matcher applies in that run.                             *)
(***************************************************************************)
Given(x, applied) == x # Absent => applied = x

C20_RunAppliesGivenCriteria ==
    (HasStarted("match") /\ step # "failed" /\ matching_criteria # Undef) =>
        /\ matching_criteria.time_window # Absent =>
              \A i \in 1..Len(catalog), j \in 1..Len(detections) :
                 LET paired == \E k \in 1..Len(results.matches) :
                                 /\ results.matches[k].referenceIndex = i - 1
                                 /\ results.matches[k].detectedIndex = j - 1
                 IN Exceeds(EventTimeDiff(catalog[i], detections[j]),
                            matching_criteria.time_window) => ~paired
        /\ Given(matching_criteria.time_window, results.matchingCriteria.timeWindow)
        /\ Given(matching_criteria.distance_threshold,
                 results.matchingCriteria.distanceThreshold)
        /\ Given(matching_criteria.magnitude_diff_threshold,
                 results.matchingCriteria.magnitudeDiffThreshold)

(***************************************************************************)
(* C21: the criteria a call works with and records in its result are,      *)
(* field by field, the caller's value when the caller supplied one and the *)
(* default otherwise, and each of the four fields is a number, also when   *)
(* the caller passes a field set to undefined.                             *)
(***************************************************************************)
Supplied(given) == given # Absent /\ given # Undef
GivenOrDefault(given, default) == IF Supplied(given) THEN given ELSE default
IsGivenOrDefault(mc, c) ==
    /\ mc.timeWindow = GivenOrDefault(c.timeWindow, defaultCriteria.timeWindow)
    /\ mc.distanceThreshold
         = GivenOrDefault(c.distanceThreshold, defaultCriteria.distanceThreshold)
    /\ mc.magnitudeDiffThreshold
         = GivenOrDefault(c.magnitudeDiffThreshold,
                          defaultCriteria.magnitudeDiffThreshold)
    /\ mc.depthDiffThreshold
         = GivenOrDefault(c.depthDiffThreshold, defaultCriteria.depthDiffThreshold)
    /\ \A x \in {mc.timeWindow, mc.distanceThreshold, mc.magnitudeDiffThreshold,
                  mc.depthDiffThreshold} : IsNum(x)

C21_CriteriaAreNumbers ==
    /\ (pc = "loop" /\ via \in {"matchEvents", "handleMatchEvents"})
          => IsGivenOrDefault(matchingCriteria, criteria)
    /\ (pc = "done" /\ outcome = "returned")
          => IsGivenOrDefault(results.matchingCriteria, criteria)

(***************************************************************************)
(* C22: the comparison of a pair does not depend on which of the two       *)
(* events is the reference: with the roles exchanged the pair passes or    *)
(* fails the same filter and has the same timeDiff, distance,              *)
(* magnitudeDiff, depthDiff and score.                                     *)
(***************************************************************************)
\* the comparison of an examined pair with the detected event as reference
Exchanged(e) ==
    Compare(detEventsWithDates[e.detectedIndex + 1],
            refEventsWithDates[e.referenceIndex + 1], matchingCriteria)

C22_RolesExchangeable ==
    \A e \in examined :
        LET exchanged == Exchanged(e)
        IN /\ exchanged.outcome = e.cmp.outcome
           /\ exchanged.timeDiff = e.cmp.timeDiff
           /\ exchanged.distance = e.cmp.distance
           /\ exchanged.magnitudeDiff = e.cmp.magnitudeDiff
           /\ exchanged.depthDiff = e.cmp.depthDiff
           /\ exchanged.matchScore = e.cmp.matchScore

\* a scored pair of events that differ in time, magnitude and depth, and a
\* pair rejected by a filter
C22_Witness ==
    /\ \E e \in examined :
          /\ e.cmp.outcome = "scored"
          /\ e.cmp.timeDiff.v > 0
          /\ e.cmp.magnitudeDiff # Null /\ e.cmp.magnitudeDiff.v > 0
          /\ e.cmp.depthDiff.v > 0
          /\ refEventsWithDates[e.referenceIndex + 1]
               # detEventsWithDates[e.detectedIndex + 1]
    /\ \E e \in examined : e.cmp.outcome = "magnitude"

(***************************************************************************)
(* C23: during matchEvents a claim is never taken back: an index that is   *)
(* claimed stays claimed, a pair that was appended to matches is neither   *)
(* removed nor changed, and processing a reference event for which no      *)
(* candidate reaches the score changes neither the claimed sets nor        *)
(* matches.                                                                *)
(***************************************************************************)
IsPrefix(s, t) == Len(s) <= Len(t) /\ SubSeq(t, 1, Len(s)) = s

\* no pair examined for reference event i passed the four filters
NoSurvivor(i) == \A e \in ExaminedFor(i) : e.cmp.outcome # "scored"

ClaimsKept ==
    /\ matchedDetIndices \subseteq matchedDetIndices'
    /\ matchedRefIndices \subseteq matchedRefIndices'
    /\ IsPrefix(matches, matches')
    /\ (pc = "loop" /\ refIdx' = refIdx + 1 /\ NoSurvivor(refIdx))
          => UNCHANGED <<matches, matchedRefIndices, matchedDetIndices>>

C23_ClaimsIrrevocable == [][ClaimsKept]_vars

\* after the second reference event: the first one's claim is still there and
\* the second, whose only candidate was rejected by a filter, added nothing
C23_Witness ==
    /\ pc = "loop"
    /\ refIdx = 2
    /\ Len(matches) = 1
    /\ matches[1].referenceIndex = 0
    /\ matchedDetIndices = {matches[1].detectedIndex}
    /\ ExaminedOf(1) # {}
    /\ \A e \in ExaminedOf(1) : e.cmp.outcome # "scored"

\* after the second reference event: two claims, the first one kept
C23_WitnessTwoClaims ==
    /\ pc = "loop"
    /\ refIdx = 2
    /\ Len(matches) = 2
    /\ matchedDetIndices = {matches[1].detectedIndex, matches[2].detectedIndex}
    /\ matchedRefIndices = {0, 1}

(***************************************************************************)
(* C24: the reference events are processed in the order given, so matches  *)
(* is in strictly increasing order of referenceIndex; the candidates of    *)
(* reference event i are exactly the detected events that no earlier       *)
(* reference event has claimed; unmatchedReference and unmatchedDetected   *)
(* keep the order of the input lists.                                      *)
(***************************************************************************)
DetectedIndices == 0..(Len(detectedEvents) - 1)

ProcessedInOrder ==
    /\ {e.referenceIndex : e \in examined} \subseteq 0..(refIdx - 1)
    /\ \A k \in 1..Len(matches) : matches[k].referenceIndex < refIdx
    /\ \A k \in 1..(Len(matches) - 1) :
          matches[k].referenceIndex < matches[k + 1].referenceIndex

CandidatesAreTheUnclaimed ==
    /\ \A i \in 0..(refIdx - 1) :
          {e.detectedIndex : e \in ExaminedOf(i)} = DetectedIndices \ ClaimedBefore(i)
    /\ \A k \in 1..Len(matches) :
          matches[k].detectedIndex \notin ClaimedBefore(matches[k].referenceIndex)

UnmatchedKeepOrder ==
    outcome = "returned" =>
        /\ results.unmatchedReference
             = EventsNotIn(referenceEvents, RefIndicesOf(results.matches))
        /\ results.unmatchedDetected
             = EventsNotIn(detectedEvents, DetIndicesOf(results.matches))
        /\ \A k \in 1..(Len(results.matches) - 1) :
              results.matches[k].referenceIndex < results.matches[k + 1].referenceIndex

C24_ReferenceOrder ==
    (via \in {"matchEvents", "handleMatchEvents"} /\ pc # "call")
        => ProcessedInOrder /\ CandidatesAreTheUnclaimed /\ UnmatchedKeepOrder

\* the sample run: three matches in reference order, the second reference
\* event takes a detected event the first one left, and the two unmatched
\* detected events (third and fifth) are returned in that order
C24_Witness ==
    /\ outcome = "returned"
    /\ Len(results.matches) = 3
    /\ ClaimedBefore(1) # {}
    /\ Len(results.unmatchedDetected) = 2
    /\ results.unmatchedDetected = <<detectedEvents[3], detectedEvents[5]>>
    /\ detectedEvents[3] # detectedEvents[5]

(***************************************************************************)
(* C25: matchEvents and calculatePerformanceMetrics leave their inputs as  *)
(* they were: the reference list, the detected list and every event in     *)
(* them, the caller's criteria object, the matcher's defaultCriteria, and  *)
(* the MatchResult handed to calculatePerformanceMetrics.                  *)
(***************************************************************************)
InputsKept ==
    /\ referenceEvents' = referenceEvents
    /\ detectedEvents' = detectedEvents
    /\ args' = args
    /\ via = "matchEvents" => criteria' = criteria
    /\ pc # "call" => criteria' = criteria
    /\ thisDefaultCriteria' = thisDefaultCriteria
    /\ matching_results' = matching_results
    /\ (pc = "done" /\ pc' = "metrics") => (results' = results /\ matchingResults' = results)

C25_InputsUnchanged == [][InputsKept]_vars

\* a finished run with events and a caller's criteria object, the metrics
\* computed: the inputs do not carry the matcher's timeObj, and the result
\* handed to the metrics is the one matchEvents returned
C25_Witness ==
    /\ pc = "metrics"
    /\ via = "matchEvents"
    /\ Len(referenceEvents) = 2
    /\ Len(detectedEvents) = 2
    /\ criteria # NoCriteria
    /\ Len(results.matches) > 0
    /\ Len(refEventsWithDates) = 2
    /\ \A i \in 1..2 : refEventsWithDates[i] # referenceEvents[i]
    /\ matchingResults = results
    /\ thisDefaultCriteria = defaultCriteria
    /\ results.matchingCriteria # defaultCriteria

(***************************************************************************)
(* C26: for a result of matchEvents, the precision and the recall in the   *)
(* performance block of generateMatchingSummary equal the precision and    *)
(* the recall calculatePerformanceMetrics computes from the same result,   *)
(* also when a denominator is zero (both report 0).                        *)
(***************************************************************************)
C26_SummaryAgreesWithMetrics ==
    matchingSummary # Null =>
        /\ matchingSummary.performance.precision = metrics.precision
        /\ matchingSummary.performance.recall = metrics.recall

(***************************************************************************)
(* C27: normalization discards exactly the events that lack time,          *)
(* latitude or longitude: a record that has all three is kept by every     *)
(* loader and parser, also when its latitude or longitude is 0 and when    *)
(* it has no magnitude, and a record that lacks one of them is dropped.    *)
(***************************************************************************)
Complete(record) ==
    record.time # Absent /\ record.latitude # Absent /\ record.longitude # Absent

\* time, latitude and longitude of the complete records, in order, one per
\* event id for picks
RECURSIVE ExpectedFrom(_, _, _)
ExpectedFrom(records, grouped, seen) ==
    IF records = <<>> THEN <<>>
    ELSE LET r == Head(records)
         IN IF Complete(r) /\ ~(grouped /\ r.event_id \in seen)
            THEN <<[time |-> r.time, latitude |-> r.latitude, longitude |-> r.longitude]>>
                 \o ExpectedFrom(Tail(records), grouped, seen \cup {r.event_id})
            ELSE ExpectedFrom(Tail(records), grouped, seen)

PositionsOf(events) ==
    [i \in 1..Len(events) |->
        [time |-> events[i].time, latitude |-> events[i].latitude,
         longitude |-> events[i].longitude]]

C27_KeepsCompleteEvents ==
    normalized # Null =>
        /\ ~normalized.threw
        /\ PositionsOf(normalized.events)
             = ExpectedFrom(rawEvents, loader = "loadPicksFormat", {})

(***************************************************************************)
(* C28: the CallTool handler lets no error escape: for every tool name,    *)
(* an unknown one included, and every failure inside a handler it returns  *)
(* a response with isError = true whose text names the tool and carries    *)
(* the error's message; when the handler succeeds it returns the handler's *)
(* content, without isError.                                               *)
(***************************************************************************)
IsErrorResponse(response, name, message) ==
    /\ "isError" \in DOMAIN response
    /\ response.isError = TRUE
    /\ Len(response.content) = 1
    /\ response.content[1].type = "text"
    /\ LET text == response.content[1].text
       IN /\ Len(text) = 3 + Len(message)
          /\ text[2] = name
          /\ SubSeq(text, 4, Len(text)) = message

C28_NoErrorEscapes ==
    \A r \in DOMAIN toolCalls :
        toolCalls[r].pc = "responded" =>
            LET call == toolCalls[r]
            IN /\ "escaped" \notin DOMAIN call.response
               /\ call.name \notin KnownTools =>
                     IsErrorResponse(call.response, call.name,
                                     <<"Unknown tool: ", call.name>>)
               /\ call.outcome.rejected =>
                     IsErrorResponse(call.response, call.name, call.outcome.error.message)
               /\ ~call.outcome.rejected =>
                     /\ "isError" \notin DOMAIN call.response
                     /\ call.response.content = call.outcome.value.content

\* one request whose handler rejected and one for an unknown tool, both answered
C28_Witness ==
    /\ toolCalls # <<>>
    /\ toolCalls[1].pc = "responded"
    /\ toolCalls[1].name = "run_full_comparison"
    /\ toolCalls[1].outcome.rejected
    /\ toolCalls[1].response.isError
    /\ toolCalls[2].pc = "responded"
    /\ toolCalls[2].name = "list_tools"
    /\ toolCalls[2].response.isError

\* a request whose handler succeeded
C28_WitnessSuccess ==
    /\ toolCalls # <<>>
    /\ toolCalls[1].pc = "responded"
    /\ toolCalls[1].name = "match_events"
    /\ ~toolCalls[1].outcome.rejected
    /\ toolCalls[1].response = toolCalls[1].outcome.value

(***************************************************************************)
(* C29: the matching is maximal with respect to the hard filters: for      *)
(* events with finite fields and positive thresholds, the result leaves no *)
(* pair of an unmatched reference event and an unmatched detected event    *)
(* that passes all four filters.  It is not a matching of maximum size:    *)
(* for CatalogA against CatalogB it has one pair although two disjoint     *)
(* pairs pass the filters.                                                 *)
(***************************************************************************)
FiniteFields(e) ==
    /\ IsNum(e.time) /\ IsNum(e.latitude) /\ IsNum(e.longitude)
    /\ IsNum(e.depth_km) \/ e.depth_km = Undef
    /\ IsNum(e.magnitude) \/ MagnitudeAbsent(e)

IsPositive(x) == IsNum(x) /\ x.v > 0

FiniteAndPositive ==
    /\ \A i \in 1..Len(referenceEvents) : FiniteFields(referenceEvents[i])
    /\ \A j \in 1..Len(detectedEvents) : FiniteFields(detectedEvents[j])
    /\ IsPositive(matchingCriteria.timeWindow)
    /\ IsPositive(matchingCriteria.distanceThreshold)
    /\ IsPositive(matchingCriteria.magnitudeDiffThreshold)
    /\ IsPositive(matchingCriteria.depthDiffThreshold)

UnmatchedReferenceIndices ==
    (0..(Len(referenceEvents) - 1)) \ RefIndicesOf(results.matches)
UnmatchedDetectedIndices ==
    (0..(Len(detectedEvents) - 1)) \ DetIndicesOf(results.matches)

\* the differences the matcher computed for the pair (i, j)
DifferencesOf(i, j) ==
    (CHOOSE e \in examined : e.referenceIndex = i /\ e.detectedIndex = j).cmp

Maximal ==
    \A i \in UnmatchedReferenceIndices, j \in UnmatchedDetectedIndices :
        /\ \E e \in examined : e.referenceIndex = i /\ e.detectedIndex = j
        /\ ~PassesFilters(DifferencesOf(i, j), matchingCriteria)

\* a set of index pairs that pass the filters and share no index
IsAssignment(P) ==
    /\ \A p \in P :
          PassesFilters(Compare(WithDate(referenceEvents[p[1] + 1]),
                                WithDate(detectedEvents[p[2] + 1]),
                                matchingCriteria),
                        matchingCriteria)
    /\ \A p, q \in P : (p[1] = q[1] \/ p[2] = q[2]) => p = q

C29_MaximalNotMaximum ==
    /\ (outcome = "returned" /\ FiniteAndPositive) => Maximal
    /\ MatchedAWithB =>
          /\ Len(results.matches) = 1
          /\ IsAssignment({<<0, 0>>, <<1, 1>>})

\* a result with an unmatched event on each side, a pair that fails a filter
C29_Witness ==
    /\ outcome = "returned"
    /\ FiniteAndPositive
    /\ Len(results.matches) = 1
    /\ UnmatchedReferenceIndices # {}
    /\ UnmatchedDetectedIndices # {}
    /\ criteria # NoCriteria

\* the run of CatalogA against CatalogB: maximal with one pair
C29_WitnessNotMaximum ==
    /\ MatchedAWithB
    /\ Maximal
    /\ PairsOf(results.matches) = {<<0, 1>>}
    /\ UnmatchedReferenceIndices = {1}
    /\ UnmatchedDetectedIndices = {0}

(***************************************************************************)
(* Notions for the quality filter: the doubles 1.0 and 0.85, and the       *)
(* matches a filter with limit max has to keep, in list order.             *)
(***************************************************************************)
One == DFromInt(1)
EightyFiveHundredths == Literal(100 - MagnitudeWeight)
\* the double that 0.4 + 0.4 + 0 + 0.05 evaluates to
SumWithoutMagnitude ==
    DAdd(DAdd(DAdd(Literal(TimeWeight), Literal(DistanceWeight)), DZero),
         Literal(DepthWeight))

GivenMaxScore == IF qualityFilter.maxScore = Undef THEN One ELSE qualityFilter.maxScore
AtMostMaxScore ==
    {i \in 1..Len(qualityFilter.matches) :
        DLessEq(qualityFilter.matches[i].matchScore, GivenMaxScore)}
KeptInOrder ==
    [k \in 1..Cardinality(AtMostMaxScore) |->
        qualityFilter.matches[NthOf(AtMostMaxScore, k)]]

ScoresWithin(limitWithoutMagnitude) ==
    \A i \in 1..Len(qualityFilter.matches) :
        LET match == qualityFilter.matches[i]
        IN /\ DLessEq(DZero, match.matchScore)
           /\ DLessEq(match.matchScore, One)
           /\ (match.magnitudeDiff = Null
                 => DLessEq(match.matchScore, limitWithoutMagnitude))

FilterKeepsTheGood ==
    qualityFilter.called =>
        /\ qualityFilter.returned = KeptInOrder
        /\ (qualityFilter.maxScore = Undef
              => qualityFilter.returned = qualityFilter.matches)

(***************************************************************************)
(* C30 as stated: with positive thresholds every match has a matchScore    *)
(* from 0 to 1.0, and of at most 0.85 when its magnitudeDiff is null;      *)
(* filterMatchesByQuality with the default maxScore returns every match in *)
(* order, and with any maxScore exactly the matches whose matchScore is at *)
(* most maxScore, in their original order.                                 *)
(***************************************************************************)
C30_ScoreAtMostEightyFive ==
    via = "filterMatchesByQuality" =>
        /\ ScoresWithin(EightyFiveHundredths)
        /\ FilterKeepsTheGood

(***************************************************************************)
(* C30, amended: with positive thresholds every match has a matchScore     *)
(* from 0 to 1.0, and when its magnitudeDiff is null of at most the double *)
(* that 0.4 + 0.4 + 0 + 0.05 rounds to, 0.8500000000000001, the next       *)
(* double above 0.85; filterMatchesByQuality with the default maxScore     *)
(* returns every match in order, and with any maxScore exactly the matches *)
(* whose matchScore is at most maxScore, in their original order.          *)
(***************************************************************************)
C30_ScoreBounds ==
    via = "filterMatchesByQuality" =>
        /\ ScoresWithin(SumWithoutMagnitude)
        /\ ~DLessEq(SumWithoutMagnitude, EightyFiveHundredths)
        /\ FilterKeepsTheGood

\* the default filter kept two matches: one on all four thresholds, of score
\* 1.0, and one without magnitudes on the other three thresholds, whose
\* score is above 0.85
C30_Witness ==
    /\ via = "filterMatchesByQuality"
    /\ qualityFilter.called
    /\ qualityFilter.maxScore = Undef
    /\ Len(qualityFilter.matches) = 2
    /\ qualityFilter.matches[1].matchScore = One
    /\ qualityFilter.matches[2].magnitudeDiff = Null
    /\ ~DLessEq(qualityFilter.matches[2].matchScore, EightyFiveHundredths)
    /\ qualityFilter.returned = qualityFilter.matches

\* a filter with maxScore 0.85 dropped the first of two matches, a match
\* without magnitudes, and kept the second
C30_WitnessDropped ==
    /\ via = "filterMatchesByQuality"
    /\ qualityFilter.called
    /\ qualityFilter.maxScore = EightyFiveHundredths
    /\ Len(qualityFilter.matches) = 2
    /\ qualityFilter.matches[1].magnitudeDiff = Null
    /\ qualityFilter.returned = <<qualityFilter.matches[2]>>

====
